---- MODULE Spec2Model ----
(***************************************************************************)
(* Project indexing pipeline, incremental index maintainer and the source  *)
(* accessor of the Unity assistant (src/lib/indexing/unity-indexer.ts and  *)
(* the FilesystemMCPClient listed in src/QUICK_START.md).                  *)
(*                                                                         *)
(* Text (file contents, paths) is a sequence of one-character strings, so  *)
(* that the regular expressions, startsWith/endsWith and basename of the   *)
(* source are computed on characters.                                      *)
(***************************************************************************)
EXTENDS Integers, Sequences, FiniteSets, TLC

(***************************************************************************)
(* Bounds of the model.                                                    *)
(***************************************************************************)
\* calls of indexProject, watchProject and stopWatching plus changes of the tree
MaxOps == 3
\* failures of the embedding provider, the vector store and onChange
MaxFaults == 1
\* words in a query
MaxWords == 2
\* matches in a response of the vector store
MaxMatches == 3
\* entries in a user's error history
MaxHistory == 3
\* pieces in a script given to the chunker
MaxPieces == 3
\* patterns of a style profile
MaxPatterns == 3
\* scripts analysed for a style profile
MaxFiles == 20
\* documents given to one storeBatch call
MaxDocs == 201
\* type declarations of either kind in a project
MaxTypes == 10
\* scripts of a project given to the style analyzer
MaxScripts == 3
\* connections a client of the editor builds
MaxConnections == 2
\* projects the user profile keeps
MaxProjects == 2
\* feedback scores the user profile keeps
MaxFeedback == 3
\* events of the API stream of one chat request
MaxEvents == 3

(***************************************************************************)
(* Characters and strings.                                                 *)
(***************************************************************************)
WhiteSpace == {" ", "\n", "\t", "\r"}

WordChars ==
  {"a","b","c","d","e","f","g","h","i","j","k","l","m","n","o","p","q","r","s",
   "t","u","v","w","x","y","z","A","B","C","D","E","F","G","H","I","J","K","L",
   "M","N","O","P","Q","R","S","T","U","V","W","X","Y","Z","0","1","2","3","4",
   "5","6","7","8","9","_"}

IsWs(c) == c \in WhiteSpace
IsWord(c) == c \in WordChars

\* s has the literal lit at position p (1-based)
HasAt(s, p, lit) ==
  /\ p >= 1
  /\ p + Len(lit) - 1 <= Len(s)
  /\ SubSeq(s, p, p + Len(lit) - 1) = lit

StartsWith(s, prefix) == HasAt(s, 1, prefix)
EndsWith(s, suffix) == Len(suffix) <= Len(s) /\ HasAt(s, Len(s) - Len(suffix) + 1, suffix)

\* first position >= p that holds no white space (Len(s)+1 when there is none): \s*
RECURSIVE SkipWs(_, _)
SkipWs(s, p) == IF p <= Len(s) /\ IsWs(s[p]) THEN SkipWs(s, p + 1) ELSE p

\* first position >= p that holds no word character: \w*
RECURSIVE SkipWord(_, _)
SkipWord(s, p) == IF p <= Len(s) /\ IsWord(s[p]) THEN SkipWord(s, p + 1) ELSE p

\* String.prototype.trim
RECURSIVE TrimEnd(_)
TrimEnd(s) == IF s # <<>> /\ IsWs(s[Len(s)]) THEN TrimEnd(SubSeq(s, 1, Len(s) - 1)) ELSE s
trim(s) == LET p == SkipWs(s, 1) IN TrimEnd(SubSeq(s, p, Len(s)))

kwClass == <<"c","l","a","s","s">>
kwPublic == <<"p","u","b","l","i","c">>
kwPrivate == <<"p","r","i","v","a","t","e">>
kwProtected == <<"p","r","o","t","e","c","t","e","d">>

\* the lookahead (?=class\s+\w+) succeeds at position p
ClassAt(s, p) ==
  /\ HasAt(s, p, kwClass)
  /\ LET a == p + Len(kwClass)
         b == SkipWs(s, a)
     IN  b > a /\ b <= Len(s) /\ IsWord(s[b])

\* the lookahead (?=(?:public|private|protected)\s+\w+\s+\w+\s*\() succeeds at p
MethodAt(s, p) ==
  \E kw \in {kwPublic, kwPrivate, kwProtected} :
    /\ HasAt(s, p, kw)
    /\ LET a == p + Len(kw)
           b == SkipWs(s, a)
           c == SkipWord(s, b)
           d == SkipWs(s, c)
           e == SkipWord(s, d)
           f == SkipWs(s, e)
       IN  b > a /\ c > b /\ d > c /\ e > d /\ f <= Len(s) /\ s[f] = "("

\* String.prototype.split on a zero-width lookahead: the string is cut before every
\* position > first at which the lookahead succeeds; the empty string gives [""]
RECURSIVE PiecesFrom(_, _, _)
PiecesFrom(s, start, cuts) ==
  LET later == {q \in cuts : q > start}
  IN  IF later = {}
      THEN <<SubSeq(s, start, Len(s))>>
      ELSE LET nxt == CHOOSE q \in later : \A r \in later : q <= r
           IN  <<SubSeq(s, start, nxt - 1)>> \o PiecesFrom(s, nxt, cuts)

SplitClasses(s) == PiecesFrom(s, 1, {q \in 2..Len(s) : ClassAt(s, q)})
SplitMethods(s) == PiecesFrom(s, 1, {q \in 2..Len(s) : MethodAt(s, q)})

\* a loop that accumulates the methods without looking at the size
RECURSIVE PackMethodsUnbounded(_, _, _, _)
PackMethodsUnbounded(methods, k, acc, maxChunkSize) ==
  IF k > Len(methods)
  THEN IF acc[2] # <<>> THEN Append(acc[1], trim(acc[2])) ELSE acc[1]
  ELSE PackMethodsUnbounded(methods, k + 1, <<acc[1], acc[2] \o methods[k]>>, maxChunkSize)

\* the inner loop of chunkScript: methods are accumulated into currentChunk while
\* they fit; acc = <<chunks, currentChunk>>
RECURSIVE PackMethods(_, _, _, _)
PackMethods(methods, k, acc, maxChunkSize) ==
  IF k > Len(methods)
  THEN IF acc[2] # <<>> THEN Append(acc[1], trim(acc[2])) ELSE acc[1]
  ELSE LET method == methods[k]
       IN  IF Len(acc[2] \o method) <= maxChunkSize
           THEN PackMethods(methods, k + 1, <<acc[1], acc[2] \o method>>, maxChunkSize)
           ELSE PackMethods(methods, k + 1,
                  <<IF acc[2] # <<>> THEN Append(acc[1], trim(acc[2])) ELSE acc[1], method>>,
                  maxChunkSize)

\* a loop that puts the chunks of a section before those collected so far
RECURSIVE ChunkSectionsNewestFirst(_, _, _)
ChunkSectionsNewestFirst(sections, k, maxChunkSize) ==
  IF k > Len(sections) THEN <<>>
  ELSE LET section == sections[k]
           here == IF Len(section) <= maxChunkSize
                   THEN <<trim(section)>>
                   ELSE PackMethods(SplitMethods(section), 1, <<(<<>>), (<<>>)>>, maxChunkSize)
       IN  ChunkSectionsNewestFirst(sections, k + 1, maxChunkSize) \o here

\* the outer loop of chunkScript: a section that fits is one chunk, a larger one
\* is packed method by method
RECURSIVE ChunkSections(_, _, _)
ChunkSections(sections, k, maxChunkSize) ==
  IF k > Len(sections) THEN <<>>
  ELSE LET section == sections[k]
           here == IF Len(section) <= maxChunkSize
                   THEN <<trim(section)>>
                   ELSE PackMethods(SplitMethods(section), 1, <<(<<>>), (<<>>)>>, maxChunkSize)
       IN  here \o ChunkSections(sections, k + 1, maxChunkSize)

chunkScript(content, maxChunkSize) ==
  SelectSeq(ChunkSections(SplitClasses(content), 1, maxChunkSize), LAMBDA chunk : Len(chunk) > 0)

DefaultMaxChunkSize == 1000


(***************************************************************************)
(* Paths.                                                                  *)
(***************************************************************************)
sep == <<"/">>
\* path.join of a directory and one more segment
join(dir, name) == dir \o sep \o name

\* path.basename: the text after the last separator
RECURSIVE basename(_)
basename(p) ==
  IF p = <<>> \/ p[Len(p)] = "/" THEN <<>>
  ELSE Append(basename(SubSeq(p, 1, Len(p) - 1)), p[Len(p)])

ProjectRoot == <<"/","p">>
segAssets == <<"A","s","s","e","t","s">>
segScripts == <<"S","c","r","i","p","t","s">>
segProjectSettings == <<"P","r","o","j","e","c","t","S","e","t","t","i","n","g","s">>
segProjectVersion == <<"P","r","o","j","e","c","t","V","e","r","s","i","o","n",".","t","x","t">>
extCs == <<".","c","s">>
extUnity == <<".","u","n","i","t","y">>
extPrefab == <<".","p","r","e","f","a","b">>

scriptsPathOf(projectPath) == join(join(projectPath, segAssets), segScripts)
versionPathOf(projectPath) == join(join(projectPath, segProjectSettings), segProjectVersion)

ScriptA == join(scriptsPathOf(ProjectRoot), <<"A",".","c","s">>)
ScriptB == join(scriptsPathOf(ProjectRoot), <<"B",".","c","s">>)
EditorCs == join(ProjectRoot, <<"T",".","c","s">>)
SceneM == join(join(ProjectRoot, segAssets), <<"M",".","u","n","i","t","y">>)
PrefabH == join(join(ProjectRoot, segAssets), <<"H",".","p","r","e","f","a","b">>)
VersionFile == versionPathOf(ProjectRoot)

\* the files of the watched tree, in directory-listing order
PathList == <<ScriptA, ScriptB, SceneM, PrefabH, EditorCs, VersionFile>>
Paths == {PathList[k] : k \in 1..Len(PathList)}

(***************************************************************************)
(* File contents.                                                          *)
(***************************************************************************)
File(text) == [kind |-> "file", text |-> text]
Missing == [kind |-> "missing", text |-> <<>>]          \* not listed, a read fails
Unreadable == [kind |-> "unreadable", text |-> <<>>]    \* listed, but a read fails

TextOne == <<"c","l","a","s","s"," ","A","{","}">>
TextTwo == <<"c","l","a","s","s"," ","B","{","}","\n","c","l","a","s","s"," ","C","{","}">>
TextBlank == <<" ","\n">>
TextEmpty == <<>>
TextVersion == <<"m","_","E","d","i","t","o","r","V","e","r","s","i","o","n",":"," ","6",".","0","\n">>

\* what an edit can leave in a file of the tree
ValuesOf(path) ==
  IF path = EditorCs THEN {File(TextOne), Missing}
  ELSE IF EndsWith(path, extCs)
       THEN {File(TextOne), File(TextTwo), File(TextBlank), Unreadable, Missing}
  ELSE IF path = VersionFile THEN {File(TextVersion), File(TextEmpty), Unreadable, Missing}
  ELSE {File(TextEmpty), Missing}

(***************************************************************************)
(* State.                                                                  *)
(***************************************************************************)
VARIABLES
  fs,                   \* the file tree: path -> File(text), Missing or Unreadable
  edits,                \* number of changes made to the tree
  now,                  \* Date.now()
  allowedPaths,         \* FilesystemMCPClient.allowedPaths
  subs,                 \* the chokidar watchers created, in creation order
  watchers,             \* FilesystemMCPClient.watchers: watcherId -> index in subs
  fileChangeCallbacks,  \* FilesystemMCPClient.fileChangeCallbacks, likewise
  stopLog,              \* the stopWatching calls made, in call order
  tasks,                \* the invocations of the watch callback, in dispatch order
  ip,                   \* the indexProject call in flight
  runs,                 \* the indexProject calls that have settled
  store,                \* the records of the Pinecone index
  tokens,               \* number of nanoid() calls made
  call                  \* the last call of an operation that keeps no state of its own,
                        \* or a component followed on its own

vars == <<fs, edits, now, allowedPaths, subs, watchers, fileChangeCallbacks, stopLog,
          tasks, ip, runs, store, tokens, call>>

\* the failures injected so far
Faults ==
  Cardinality({k \in 1..Len(tasks) : tasks[k].cause \in {"embed", "upsert", "onChange"}})
  + Cardinality({k \in 1..Len(runs) : runs[k].cause \in {"embed", "upsert"}})

\* the calls made and the changes of the tree so far
Ops == Len(subs) + Len(stopLog) + edits + Len(runs) + (IF ip.pc = "idle" THEN 0 ELSE 1)

(***************************************************************************)
(* Source accessor (FilesystemMCPClient).                                  *)
(***************************************************************************)
isPathAllowed(allowed, filePath) == \E allowedPath \in allowed : StartsWith(filePath, allowedPath)

\* readFile: the text, or a failure
readFile(allowed, files, filePath) ==
  IF ~isPathAllowed(allowed, filePath) THEN [ok |-> FALSE, text |-> <<>>]
  ELSE IF filePath \in DOMAIN files /\ files[filePath].kind = "file"
       THEN [ok |-> TRUE, text |-> files[filePath].text]
       ELSE [ok |-> FALSE, text |-> <<>>]

\* findFiles(dirPath, /ext$/): the files below dirPath whose path ends with ext
findFiles(files, dirPath, ext) ==
  SelectSeq(PathList, LAMBDA f : /\ StartsWith(f, dirPath \o sep)
                                 /\ files[f].kind # "missing"
                                 /\ EndsWith(f, ext))

keyEditorVersion == <<"m","_","E","d","i","t","o","r","V","e","r","s","i","o","n",":"," ">>
textUnknown == <<"u","n","k","n","o","w","n">>

\* first position >= p holding a line terminator, which "." does not match
RECURSIVE LineEnd(_, _)
LineEnd(s, p) == IF p <= Len(s) /\ s[p] \notin {"\n", "\r"} THEN LineEnd(s, p + 1) ELSE p

\* content.match(/m_EditorVersion: (.+)/): the first match's group, trimmed
versionOf(content) ==
  LET hits == {p \in 1..Len(content) :
                 /\ HasAt(content, p, keyEditorVersion)
                 /\ LineEnd(content, p + Len(keyEditorVersion)) > p + Len(keyEditorVersion)}
  IN  IF hits = {} THEN textUnknown
      ELSE LET p == CHOOSE q \in hits : \A r \in hits : q <= r
               a == p + Len(keyEditorVersion)
           IN  trim(SubSeq(content, a, LineEnd(content, a) - 1))

readProjectSettings(allowed, files, projectPath) ==
  LET r == readFile(allowed, files, versionPathOf(projectPath))
  IN  [ok |-> r.ok, version |-> IF r.ok THEN versionOf(r.text) ELSE <<>>]

watcherId(t) == <<"watcher", t>>

(***************************************************************************)
(* Indexing pipeline (UnityProjectIndexer) and vector store client.        *)
(***************************************************************************)
\* a getProjectInfo without the fallback of its catch block
getProjectInfoUncaught(allowed, files, projectPath) ==
  LET settings == readProjectSettings(allowed, files, projectPath)
  IN  [name |-> basename(projectPath), version |-> settings.version, path |-> projectPath]

\* getProjectInfo: the version of the descriptor, or "unknown" when
\* readProjectSettings throws
getProjectInfo(allowed, files, projectPath) ==
  LET settings == readProjectSettings(allowed, files, projectPath)
  IN  [name |-> basename(projectPath),
       version |-> IF settings.ok THEN settings.version ELSE textUnknown,
       path |-> projectPath]

\* a token source that repeats itself
nanoidRepeating(k) == 0

\* the token returned by the k-th call of nanoid(): distinct calls, distinct tokens
nanoid(k) == k

txtChunk == "chunk"

ScriptDoc(tok, filePath, i, chunk, info) ==
  [id |-> <<tok, basename(filePath), txtChunk, i>>, content |-> chunk, fileType |-> "script",
   filePath |-> filePath, projectId |-> info.path, projectName |-> info.name,
   unityVersion |-> info.version]

AssetDoc(tok, filePath, fileType, info) ==
  [id |-> <<tok, basename(filePath)>>,
   content |-> <<"Unity ", fileType, ": ">> \o basename(filePath), fileType |-> fileType,
   filePath |-> filePath, projectId |-> info.path, projectName |-> info.name,
   unityVersion |-> info.version]

\* the documents of one script: one per chunk, the n-th made with the token of the
\* (used + n)-th nanoid() call
ChunkDocs(used, filePath, content, info) ==
  LET chunks == chunkScript(content, DefaultMaxChunkSize)
  IN  [n \in 1..Len(chunks) |-> ScriptDoc(nanoid(used + n), filePath, n - 1, chunks[n], info)]

RECURSIVE ScriptsDocs(_, _, _, _, _)
ScriptsDocs(used, files, scripts, k, info) ==
  IF k > Len(scripts) THEN <<>>
  ELSE LET here == ChunkDocs(used, scripts[k], files[scripts[k]].text, info)
       IN  here \o ScriptsDocs(used + Len(here), files, scripts, k + 1, info)

AssetsDocs(used, assets, fileType, info) ==
  [n \in 1..Len(assets) |-> AssetDoc(nanoid(used + n), assets[n], fileType, info)]

batchSize == 100

Min(a, b) == IF a <= b THEN a ELSE b
Range(q) == {q[n] : n \in 1..Len(q)}
Ids(docs) == {d.id : d \in docs}

\* an upsert loop whose slices overlap by one record
BatchAtOverlapping(docs, i) == SubSeq(docs, IF i = 0 THEN 1 ELSE i, Min(i + batchSize, Len(docs)))

\* vectors.slice(i, i + batchSize)
BatchAt(docs, i) == SubSeq(docs, i + 1, Min(i + batchSize, Len(docs)))

\* an upsert that first deletes the stored records of the files it writes
UpsertReplacingFile(stored, batch) ==
  {d \in stored : d.filePath \notin {b.filePath : b \in Range(batch)}} \cup Range(batch)

\* index.upsert(batch): a record replaces the stored record of the same id
Upsert(stored, batch) ==
  LET last(id) == batch[CHOOSE n \in 1..Len(batch) :
                          /\ batch[n].id = id
                          /\ \A m \in 1..Len(batch) : batch[m].id = id => m <= n]
  IN  {d \in stored : d.id \notin Ids(Range(batch))} \cup {last(id) : id \in Ids(Range(batch))}

\* Map.clear
MapClear(map, key) == [k \in {} |-> 0]

\* Map.set and Map.delete
MapSet(map, key, value) == [k \in DOMAIN map \cup {key} |-> IF k = key THEN value ELSE map[k]]
MapDelete(map, key) == [k \in DOMAIN map \ {key} |-> map[k]]

\* no call made yet
NoCall == [op |-> "none"]

NoInfo == [name |-> <<>>, version |-> <<>>, path |-> <<>>]
IdleIp == [pc |-> "idle", phase |-> "none", info |-> NoInfo, docs |-> <<>>, i |-> 0,
           totalFiles |-> 0, indexed |-> 0, errors |-> 0, flushed |-> {}, v0 |-> 0]

Init ==
  /\ fs = [f \in Paths |-> IF f = ScriptA \/ f = EditorCs THEN File(TextOne)
                           ELSE IF f = ScriptB THEN File(TextTwo)
                           ELSE IF f = VersionFile THEN File(TextVersion)
                           ELSE File(TextEmpty)]
  /\ edits = 0
  /\ now = 0
  /\ allowedPaths = {}
  /\ subs = <<>>
  /\ watchers = [id \in {} |-> 0]
  /\ fileChangeCallbacks = [id \in {} |-> 0]
  /\ stopLog = <<>>
  /\ tasks = <<>>
  /\ ip = IdleIp
  /\ runs = <<>>
  /\ store = {}
  /\ tokens = 0
  /\ call = NoCall

(***************************************************************************)
(* indexProject.                                                           *)
(***************************************************************************)
\* a catch block that logs the error and returns the counters
SettleSwallowing(p, status, cause, unreadable) ==
  /\ ip' = IdleIp
  /\ runs' = Append(runs,
       [status |-> "resolved", cause |-> cause,
        result |-> <<[totalFiles |-> p.totalFiles, indexed |-> p.indexed,
                      errors |-> p.errors]>>,
        flushed |-> p.flushed, count |-> Cardinality(store'),
        unreadable |-> unreadable, v0 |-> p.v0, v1 |-> edits])

\* the call settles: it resolves with its counters or the error is thrown again.
\* The record keeps what the call left behind: the documents it upserted and the
\* number of records in the index when it settled
Settle(p, status, cause, unreadable) ==
  /\ ip' = IdleIp
  /\ runs' = Append(runs,
       [status |-> status, cause |-> cause,
        result |-> IF status = "resolved"
                   THEN <<[totalFiles |-> p.totalFiles, indexed |-> p.indexed,
                           errors |-> p.errors]>>
                   ELSE <<>>,
        flushed |-> p.flushed, count |-> Cardinality(store'),
        unreadable |-> unreadable, v0 |-> p.v0, v1 |-> edits])

\* a count of the indexed files that takes only the files with a document
StoreOrSkipCountingStored(p, phase, docs, count, next) ==
  LET q == [p EXCEPT !.phase = phase, !.docs = docs, !.i = 0,
                     !.totalFiles = @ + count,
                     !.indexed = @ + Cardinality({docs[n].filePath : n \in 1..Len(docs)})]
  IN  IF docs # <<>> THEN ip' = [q EXCEPT !.pc = "embed"] /\ UNCHANGED runs
      ELSE IF next = "resolved" THEN Settle(q, "resolved", "none", 0)
      ELSE ip' = [q EXCEPT !.pc = next, !.docs = <<>>] /\ UNCHANGED runs

\* a category's documents are handed to storeBatch, unless there are none
StoreOrSkip(p, phase, docs, count, next) ==
  LET q == [p EXCEPT !.phase = phase, !.docs = docs, !.i = 0,
                     !.totalFiles = @ + count, !.indexed = @ + count]
  IN  IF docs # <<>> THEN ip' = [q EXCEPT !.pc = "embed"] /\ UNCHANGED runs
      ELSE IF next = "resolved" THEN Settle(q, "resolved", "none", 0)
      ELSE ip' = [q EXCEPT !.pc = next, !.docs = <<>>] /\ UNCHANGED runs

\* storeBatch returned: the next category, or the result
AfterStore(p) ==
  IF p.phase = "prefabs" THEN Settle(p, "resolved", "none", 0)
  ELSE ip' = [p EXCEPT !.pc = IF p.phase = "scripts" THEN "scenes" ELSE "prefabs",
                       !.docs = <<>>, !.i = 0] /\ UNCHANGED runs

\* indexProject up to indexScripts' call of storeBatch
indexProject(projectPath) ==
  /\ ip.pc = "idle"
  /\ UNCHANGED <<fs, edits, now, subs, watchers, fileChangeCallbacks, stopLog, tasks, store>>
  /\ Ops < MaxOps
  /\ allowedPaths' = allowedPaths \cup {projectPath}
  /\ LET info == getProjectInfo(allowedPaths', fs, projectPath)
         scriptsPath == scriptsPathOf(projectPath)
         scripts == findFiles(fs, scriptsPath, extCs)
         unreadable == {k \in 1..Len(scripts) :
                          ~readFile(allowedPaths', fs, scripts[k]).ok}
         docs == ScriptsDocs(tokens, fs, scripts, 1, info)
         p == [IdleIp EXCEPT !.info = info, !.v0 = edits]
     IN  IF ~isPathAllowed(allowedPaths', scriptsPath) \/ unreadable # {}
         THEN /\ Settle(p, "rejected", "read", Cardinality(unreadable))
              /\ UNCHANGED tokens
         ELSE /\ StoreOrSkip(p, "scripts", docs, Len(scripts), "scenes")
              /\ tokens' = tokens + Len(docs)

\* a call of indexProject
IndexProject(projectPath) == indexProject(projectPath) /\ UNCHANGED call

\* storeBatch: Promise.all over the embeddings of the documents
IndexEmbed(ok) ==
  /\ ip.pc = "embed"
  /\ UNCHANGED <<call, fs, edits, now, allowedPaths, subs, watchers, fileChangeCallbacks, stopLog,
                 tasks, store, tokens>>
  /\ ~ok => Faults < MaxFaults
  /\ IF ok THEN ip' = [ip EXCEPT !.pc = "upsert"] /\ UNCHANGED runs
     ELSE Settle(ip, "rejected", "embed", 0)

\* storeBatch: one index.upsert of the loop
IndexUpsert(ok) ==
  /\ ip.pc = "upsert"
  /\ UNCHANGED <<call, fs, edits, now, allowedPaths, subs, watchers, fileChangeCallbacks, stopLog,
                 tasks, tokens>>
  /\ ~ok => Faults < MaxFaults
  /\ LET batch == BatchAt(ip.docs, ip.i)
         p == [ip EXCEPT !.i = @ + Len(batch), !.flushed = @ \cup Range(batch)]
     IN  IF ok
         THEN /\ store' = Upsert(store, batch)
              /\ IF p.i >= Len(p.docs) THEN AfterStore(p)
                 ELSE ip' = p /\ UNCHANGED runs
         ELSE /\ UNCHANGED store
              /\ Settle(ip, "rejected", "upsert", 0)

IndexAssets(pc, ext, fileType, next) ==
  /\ ip.pc = pc
  /\ UNCHANGED <<call, fs, edits, now, allowedPaths, subs, watchers, fileChangeCallbacks, stopLog,
                 tasks, store>>
  /\ LET assets == findFiles(fs, ip.info.path, ext)
         docs == AssetsDocs(tokens, assets, fileType, ip.info)
     IN  /\ StoreOrSkip(ip, pc, docs, Len(assets), next)
         /\ tokens' = tokens + Len(docs)

IndexScenes == IndexAssets("scenes", extUnity, "scene", "prefabs")
IndexPrefabs == IndexAssets("prefabs", extPrefab, "prefab", "resolved")

(***************************************************************************)
(* Watch sessions.                                                         *)
(***************************************************************************)
\* watchProject -> watchDirectory: a chokidar watcher is created and recorded
\* under an id made of the clock, which has advanced by elapsed milliseconds
\* since it was last read
watchProject(projectPath, hasOnChange, elapsed) ==
  /\ Ops < MaxOps
  /\ allowedPaths' = allowedPaths \cup {projectPath}
  /\ isPathAllowed(allowedPaths', projectPath)
  /\ now' = now + elapsed
  /\ LET id == watcherId(now')
         watcher == Len(subs) + 1
     IN  /\ subs' = Append(subs, [id |-> id, root |-> projectPath, closed |-> FALSE,
                                  onChange |-> hasOnChange])
         /\ watchers' = MapSet(watchers, id, watcher)
         /\ fileChangeCallbacks' = MapSet(fileChangeCallbacks, id, watcher)
  /\ UNCHANGED <<fs, edits, stopLog, tasks, ip, runs, store, tokens>>

\* a call of watchProject
WatchProject(projectPath, hasOnChange, elapsed) ==
  watchProject(projectPath, hasOnChange, elapsed) /\ UNCHANGED call

\* a stop that forgets to close the watcher
closeSkipped(sub) == sub

\* FSWatcher.close(): the watcher emits nothing from the call on
closeWatcher(sub) == [sub EXCEPT !.closed = TRUE]

\* stopWatching up to its await of watcher.close(); on an id that is not in the
\* map it returns at once
stopWatching(id) ==
  /\ Ops < MaxOps
  /\ LET found == id \in DOMAIN watchers
         watcher == IF found THEN watchers[id] ELSE 0
     IN  /\ stopLog' = Append(stopLog, [id |-> id, found |-> found, sub |-> watcher,
                                        done |-> ~found])
         /\ subs' = IF found THEN [subs EXCEPT ![watcher] = closeWatcher(@)] ELSE subs
  /\ UNCHANGED <<fs, edits, now, allowedPaths, watchers, fileChangeCallbacks, tasks, ip, runs,
                 store, tokens>>

\* a call of stopWatching
StopWatching(id) == stopWatching(id) /\ UNCHANGED call

\* stopWatching after close() has resolved: the records of the id are deleted
StopComplete(n) ==
  /\ ~stopLog[n].done
  /\ stopLog' = [stopLog EXCEPT ![n].done = TRUE]
  /\ watchers' = MapDelete(watchers, stopLog[n].id)
  /\ fileChangeCallbacks' = MapDelete(fileChangeCallbacks, stopLog[n].id)
  /\ UNCHANGED <<call, fs, edits, now, allowedPaths, subs, tasks, ip, runs, store, tokens>>

(***************************************************************************)
(* The watch callback: incremental re-index.                               *)
(***************************************************************************)
\* a test of the extension alone
ShouldReindexAnyEvent(filePath, event) == EndsWith(filePath, extCs)

\* the callback's test of line 322
ShouldReindex(filePath, event) == EndsWith(filePath, extCs) /\ event # "unlink"

\* a try block that ends before onChange is called
tryCatchBeforeNotify(cause) == IF cause = "onChange" THEN "rejected" ELSE "caught"

\* what the callback's try/catch makes of an error thrown inside it
tryCatch(cause) == "caught"

\* the callback up to its first await
Callback(watcher, filePath, event) ==
  [sub |-> watcher, path |-> filePath, event |-> event,
   pc |-> IF ShouldReindex(filePath, event) THEN "read" ELSE "done",
   outcome |-> IF ShouldReindex(filePath, event) THEN "none"
               ELSE IF event = "unlink" THEN "unlinkLogged" ELSE "ignored",
   cause |-> "none", docs |-> <<>>, i |-> 0, reads |-> 0, embeds |-> 0, upserts |-> 0,
   notified |-> 0, late |-> FALSE]

\* a catch block that also calls onChange
FailedNotifying(t, cause) ==
  [t EXCEPT !.pc = "done", !.outcome = tryCatch(cause), !.cause = cause, !.notified = 1]

\* the callback's catch block: the error is logged
Failed(t, cause) == [t EXCEPT !.pc = "done", !.outcome = tryCatch(cause), !.cause = cause]

\* watchers that have not been closed and watch a directory above the path
OpenOn(filePath) ==
  SelectSeq([k \in 1..Len(subs) |-> k],
            LAMBDA k : ~subs[k].closed /\ StartsWith(filePath, subs[k].root \o sep))

\* a file of the tree is created, rewritten or removed; every open watcher above
\* it calls its callback
FsChange(filePath, value) ==
  /\ Ops < MaxOps
  /\ value \in ValuesOf(filePath)
  /\ value # fs[filePath]
  /\ LET event == IF fs[filePath] = Missing THEN "add"
                  ELSE IF value = Missing THEN "unlink" ELSE "change"
         open == OpenOn(filePath)
     IN  tasks' = tasks \o [k \in 1..Len(open) |-> Callback(open[k], filePath, event)]
  /\ fs' = [fs EXCEPT ![filePath] = value]
  /\ edits' = edits + 1
  /\ UNCHANGED <<call, now, allowedPaths, subs, watchers, fileChangeCallbacks, stopLog, ip,
                 runs, store, tokens>>

\* the stopWatching call that closed the watcher has returned
Stopped(watcher) ==
  \E n \in 1..Len(stopLog) : stopLog[n].found /\ stopLog[n].done /\ stopLog[n].sub = watcher

\* storeBatch has returned: the log line and onChange, which may throw
Finish(t, throws) ==
  IF subs[t.sub].onChange
  THEN IF throws THEN Failed([t EXCEPT !.notified = 1], "onChange")
       ELSE [t EXCEPT !.pc = "done", !.outcome = "ok", !.notified = 1]
  ELSE [t EXCEPT !.pc = "done", !.outcome = "ok"]

\* readFile, getProjectInfo, parse, chunk, and the documents handed to storeBatch
TaskRead(k) ==
  /\ tasks[k].pc = "read"
  /\ LET t == [tasks[k] EXCEPT !.reads = 1]
         r == readFile(allowedPaths, fs, t.path)
         info == getProjectInfo(allowedPaths, fs, subs[t.sub].root)
         docs == ChunkDocs(tokens, t.path, r.text, info)
     IN  IF r.ok
         THEN /\ tasks' = [tasks EXCEPT ![k] = [t EXCEPT !.pc = "embed", !.docs = docs,
                                                           !.embeds = Len(docs)]]
              /\ tokens' = tokens + Len(docs)
         ELSE /\ tasks' = [tasks EXCEPT ![k] = Failed(t, "read")]
              /\ UNCHANGED tokens
  /\ UNCHANGED <<call, fs, edits, now, allowedPaths, subs, watchers, fileChangeCallbacks, stopLog,
                 ip, runs, store>>

\* storeBatch: Promise.all over the embeddings; with no document there is no
\* upsert either and storeBatch returns
TaskEmbed(k, ok, throws) ==
  /\ tasks[k].pc = "embed"
  /\ ~ok \/ throws => Faults < MaxFaults
  /\ LET t == tasks[k]
     IN  /\ ~ok => t.docs # <<>> /\ ~throws
         /\ throws => t.docs = <<>> /\ subs[t.sub].onChange
         /\ tasks' = [tasks EXCEPT ![k] =
                        IF ~ok THEN Failed(t, "embed")
                        ELSE IF t.docs = <<>>
                             THEN Finish([t EXCEPT !.late = Stopped(t.sub)], throws)
                             ELSE [t EXCEPT !.pc = "upsert"]]
  /\ UNCHANGED <<call, fs, edits, now, allowedPaths, subs, watchers, fileChangeCallbacks, stopLog,
                 ip, runs, store, tokens>>

\* storeBatch: one index.upsert of the loop; after the last one, onChange
TaskUpsert(k, ok, throws) ==
  /\ tasks[k].pc = "upsert"
  /\ ~ok \/ throws => Faults < MaxFaults
  /\ LET t == tasks[k]
         batch == BatchAt(t.docs, t.i)
         u == [t EXCEPT !.i = @ + Len(batch), !.upserts = @ + 1]
         last == u.i >= Len(u.docs)
     IN  /\ throws => ok /\ last /\ subs[t.sub].onChange
         /\ IF ok
            THEN /\ store' = Upsert(store, batch)
                 /\ tasks' = [tasks EXCEPT ![k] =
                                IF last THEN Finish([u EXCEPT !.late = Stopped(t.sub)], throws)
                                ELSE u]
            ELSE /\ tasks' = [tasks EXCEPT ![k] = Failed([t EXCEPT !.upserts = @ + 1], "upsert")]
                 /\ UNCHANGED store
  /\ UNCHANGED <<call, fs, edits, now, allowedPaths, subs, watchers, fileChangeCallbacks, stopLog,
                 ip, runs, tokens>>

(***************************************************************************)
(* Direct calls of the source accessor.                                    *)
(***************************************************************************)
SiblingRoot == ProjectRoot \o <<"2">>
OtherRoot == <<"/","o">>
SiblingScript == join(SiblingRoot, <<"S",".","c","s">>)
OtherScript == join(OtherRoot, <<"S",".","c","s">>)

\* the directories a caller may put on the allow-list
AllowRoots == {ProjectRoot, scriptsPathOf(ProjectRoot), OtherRoot}
\* the (resolved) paths the accessor is called with
AccessPaths == {ProjectRoot, scriptsPathOf(ProjectRoot), ScriptA, VersionFile,
                SiblingRoot, SiblingScript, OtherScript}

AccessOps == {"readFile", "writeFile", "listDirectory", "findFiles", "getFileStats",
              "watchDirectory"}

\* the file-system call an accessor operation makes once the path has passed
fsApi(op) ==
  CASE op = "readFile" -> "fs.readFile"
    [] op = "writeFile" -> "fs.writeFile"
    [] op = "listDirectory" -> "fs.readdir"
    [] op = "findFiles" -> "fs.readdir"
    [] op = "getFileStats" -> "fs.stat"
    [] op = "watchDirectory" -> "chokidar.watch"

addAllowedPath(dirPath) ==
  /\ call.op = "none"
  /\ dirPath \notin allowedPaths
  /\ allowedPaths' = allowedPaths \cup {dirPath}
  /\ UNCHANGED <<call, fs, edits, now, subs, watchers, fileChangeCallbacks, stopLog, tasks, ip,
                 runs, store, tokens>>

\* one call of readFile, writeFile, listDirectory, findFiles, getFileStats or
\* watchDirectory: the guard on isPathAllowed, then the file-system call. The record
\* keeps the calls made on the file system, whether or not the path is in the tree
AccessorCall(op, filePath, content) ==
  /\ call.op = "none"
  /\ LET passed == isPathAllowed(allowedPaths, filePath)
         inTree == filePath \in DOMAIN fs
         written == op = "writeFile" /\ passed /\ inTree
         watched == op = "watchDirectory" /\ passed
     IN  /\ call' = [op |-> op, path |-> filePath, allowed |-> allowedPaths,
                     outcome |-> IF ~passed THEN "AccessDenied"
                                 ELSE IF op = "readFile" /\ ~readFile(allowedPaths, fs, filePath).ok
                                      THEN "failed"
                                 ELSE "done",
                     fsCalls |-> IF passed THEN {<<fsApi(op), filePath>>} ELSE {}]
         /\ fs' = IF written THEN [fs EXCEPT ![filePath] = File(content)] ELSE fs
         /\ edits' = IF written THEN edits + 1 ELSE edits
         /\ subs' = IF watched
                    THEN Append(subs, [id |-> watcherId(now), root |-> filePath,
                                       closed |-> FALSE, onChange |-> FALSE])
                    ELSE subs
         /\ watchers' = IF watched THEN MapSet(watchers, watcherId(now), Len(subs) + 1)
                        ELSE watchers
         /\ fileChangeCallbacks' = IF watched
                                   THEN MapSet(fileChangeCallbacks, watcherId(now), Len(subs) + 1)
                                   ELSE fileChangeCallbacks
  /\ UNCHANGED <<now, allowedPaths, stopLog, tasks, ip, runs, store, tokens>>

(***************************************************************************)
(* Retrieval-augmented generation (RAGEngine): intent of a query.          *)
(***************************************************************************)
UpperCase == <<"A","B","C","D","E","F","G","H","I","J","K","L","M","N","O","P","Q","R","S","T",
               "U","V","W","X","Y","Z">>
LowerCase == <<"a","b","c","d","e","f","g","h","i","j","k","l","m","n","o","p","q","r","s","t",
               "u","v","w","x","y","z">>

\* a lower-casing that leaves the text as it is
toLowerCaseSkipped(s) == s

\* String.prototype.toLowerCase
toLowerCase(s) ==
  [n \in 1..Len(s) |->
     IF \E i \in 1..Len(UpperCase) : UpperCase[i] = s[n]
     THEN LowerCase[CHOOSE i \in 1..Len(UpperCase) : UpperCase[i] = s[n]]
     ELSE s[n]]

\* String.prototype.includes
includes(s, part) == \E p \in 1..Len(s) + 1 : HasAt(s, p, part)

\* first position >= p that holds white space (Len(s)+1 when there is none)
RECURSIVE SkipText(_, _)
SkipText(s, p) == IF p <= Len(s) /\ ~IsWs(s[p]) THEN SkipText(s, p + 1) ELSE p

\* query.split(/\s+/) from position p on: the runs between white space; a string
\* that starts or ends with white space gives an empty first or last element
RECURSIVE SplitWs(_, _)
SplitWs(s, p) ==
  LET e == SkipText(s, p)
  IN  IF e > Len(s) THEN <<SubSeq(s, p, Len(s))>>
      ELSE <<SubSeq(s, p, e - 1)>> \o SplitWs(s, SkipWs(s, e))

codeGenerationWords ==
  {<<"c","r","e","a","t","e">>, <<"i","m","p","l","e","m","e","n","t">>,
   <<"g","e","n","e","r","a","t","e">>, <<"w","r","i","t","e">>}
explanationWords ==
  {<<"e","x","p","l","a","i","n">>, <<"w","h","a","t"," ","i","s">>,
   <<"h","o","w"," ","d","o","e","s">>, <<"w","h","y">>}
debuggingWords ==
  {<<"e","r","r","o","r">>, <<"b","u","g">>, <<"f","i","x">>, <<"d","e","b","u","g">>,
   <<"n","o","t"," ","w","o","r","k","i","n","g">>}
optimizationWords ==
  {<<"o","p","t","i","m","i","z","e">>, <<"p","e","r","f","o","r","m","a","n","c","e">>,
   <<"f","a","s","t","e","r">>, <<"i","m","p","r","o","v","e">>}
stopWords ==
  {<<"t","h","e">>, <<"a">>, <<"a","n">>, <<"a","n","d">>, <<"o","r">>, <<"b","u","t">>,
   <<"i","n">>, <<"o","n">>, <<"a","t">>, <<"t","o">>, <<"f","o","r">>, <<"o","f">>,
   <<"w","i","t","h">>}
unityKeywords ==
  {<<"u","n","i","t","y">>, <<"g","a","m","e","o","b","j","e","c","t">>,
   <<"m","o","n","o","b","e","h","a","v","i","o","u","r">>,
   <<"t","r","a","n","s","f","o","r","m">>, <<"r","i","g","i","d","b","o","d","y">>,
   <<"c","o","l","l","i","d","e","r">>, <<"p","r","e","f","a","b">>, <<"s","c","e","n","e">>,
   <<"a","w","a","k","e">>, <<"s","t","a","r","t">>, <<"u","p","d","a","t","e">>,
   <<"f","i","x","e","d","u","p","d","a","t","e">>,
   <<"n","e","t","w","o","r","k","b","e","h","a","v","i","o","u","r">>, <<"r","p","c">>,
   <<"s","e","r","i","a","l","i","z","e","f","i","e","l","d">>}

includesAny(s, words) == \E w \in words : includes(s, w)

\* a chain that tests the debugging words before the explanation words
queryTypeDebuggingFirst(lowerQuery) ==
  IF includesAny(lowerQuery, codeGenerationWords) THEN "code-generation"
  ELSE IF includesAny(lowerQuery, debuggingWords) THEN "debugging"
  ELSE IF includesAny(lowerQuery, explanationWords) THEN "explanation"
  ELSE IF includesAny(lowerQuery, optimizationWords) THEN "optimization"
  ELSE "general"

\* the if / else-if chain of analyzeQueryIntent
queryType(lowerQuery) ==
  IF includesAny(lowerQuery, codeGenerationWords) THEN "code-generation"
  ELSE IF includesAny(lowerQuery, explanationWords) THEN "explanation"
  ELSE IF includesAny(lowerQuery, debuggingWords) THEN "debugging"
  ELSE IF includesAny(lowerQuery, optimizationWords) THEN "optimization"
  ELSE "general"

analyzeQueryIntent(query) ==
  LET lowerQuery == toLowerCase(query)
  IN  [type |-> queryType(lowerQuery),
       keywords |-> SelectSeq(SplitWs(query, 1),
                      LAMBDA word : toLowerCase(word) \notin stopWords /\ Len(word) > 2),
       unitySpecific |-> includesAny(lowerQuery, unityKeywords)]

\* the words queries are made of
QueryWords ==
  <<<<"C","r","e","a","t","e">>,
    <<"e","x","p","l","a","i","n">>,
    <<"w","h","y">>,
    <<"f","i","x">>,
    <<"i","m","p","r","o","v","e">>,
    <<"e","n","e","m","y">>,
    <<"u","n","i","t","y">>,
    <<"w","h","a","t">>,
    <<"i","s">>,
    <<"n","o","t">>,
    <<"w","o","r","k","i","n","g">>,
    <<"t","h","e">>>>

ScenarioC ==
  <<"C","r","e","a","t","e"," ","a"," ","n","e","w"," ","e","n","e","m","y"," ","A","I"," ",
    "s","c","r","i","p","t">>

\* the words of ws (indices into QueryWords) joined by single spaces
RECURSIVE QueryOf(_)
QueryOf(ws) ==
  IF ws = <<>> THEN <<>>
  ELSE IF Len(ws) = 1 THEN QueryWords[ws[1]]
  ELSE QueryWords[ws[1]] \o <<" ">> \o QueryOf(Tail(ws))

\* the queries the classification is exercised with
Queries ==
  {QueryOf(ws) : ws \in UNION {[1..n -> 1..Len(QueryWords)] : n \in 0..MaxWords}}
  \cup {ScenarioC}

\* the state of the indexer and the accessor, which the RAG engine does not touch
indexerVars == <<fs, edits, now, allowedPaths, subs, watchers, fileChangeCallbacks, stopLog,
                 tasks, ip, runs, store, tokens>>

AnalyzeQueryIntent(query) ==
  /\ call.op = "none"
  /\ call' = [op |-> "analyzeQueryIntent", query |-> query,
              intent |-> analyzeQueryIntent(query)]
  /\ UNCHANGED indexerVars

(***************************************************************************)
(* Vector store client: semantic search. Scores are in hundredths.         *)
(***************************************************************************)
defaultTopK == 5
defaultMinScore == 70
highAbove == 85
mediumAbove == 75

\* a number a caller or the store may leave out
Absent == [has |-> FALSE, val |-> 0]
Given(v) == [has |-> TRUE, val |-> v]
\* x || fallback on an optional number: undefined and 0 are falsy
orElse(x, fallback) == IF x.has /\ x.val # 0 THEN x.val ELSE fallback

\* the scores index.query is exercised with: around every threshold, zero,
\* negative (cosine similarity), and none at all
ScoreValues == {-10, 0, 69, 70, 71, 75, 76, 85, 86, 100}
Scores == {Given(v) : v \in ScoreValues} \cup {Absent}

\* the n-th match of a response
MatchAt(n, score) ==
  [id |-> n, score |-> score,
   metadata |-> [content |-> TextOne, filePath |-> PathList[n], fileType |-> "script"]]

\* index.query returns at most topK matches, the most similar first
Responses(topK) ==
  {[n \in 1..Len(q) |-> MatchAt(n, q[n])] :
     q \in {s \in UNION {[1..n -> Scores] : n \in 0..Min(topK, MaxMatches)} :
              \A i \in 1..Len(s) : \A j \in 1..Len(s) :
                (i < j /\ s[i].has /\ s[j].has) => s[i].val >= s[j].val}}

\* a banding whose thresholds are inclusive
relevanceInclusive(score) ==
  IF score >= highAbove THEN "high" ELSE IF score >= mediumAbove THEN "medium" ELSE "low"

\* score > 0.85 ? 'high' : score > 0.75 ? 'medium' : 'low'
relevanceOf(score) ==
  IF score > highAbove THEN "high" ELSE IF score > mediumAbove THEN "medium" ELSE "low"

\* a transformation that returns the kept matches in reverse
searchResultsReversed(matches, minScore) ==
  LET kept == SelectSeq(matches, LAMBDA m : m.score.has /\ m.score.val # 0
                                            /\ m.score.val >= minScore)
  IN  [n \in 1..Len(kept) |->
         LET m == kept[Len(kept) + 1 - n]
         IN  [document |-> [id |-> m.id, content |-> m.metadata.content, metadata |-> m.metadata],
              score |-> m.score.val, relevance |-> relevanceOf(m.score.val)]]

\* results.matches.filter(...).map(...)
searchResults(matches, minScore) ==
  LET kept == SelectSeq(matches, LAMBDA m : m.score.has /\ m.score.val # 0
                                            /\ m.score.val >= minScore)
  IN  [n \in 1..Len(kept) |->
         [document |-> [id |-> kept[n].id, content |-> kept[n].metadata.content,
                        metadata |-> kept[n].metadata],
          score |-> kept[n].score.val, relevance |-> relevanceOf(kept[n].score.val)]]

\* a search that also stores the query in the index
searchUpserting(query, options, response, fault) ==
  [ok |-> fault = "none",
   topK |-> orElse(options.topK, defaultTopK),
   filter |-> options.filter,
   embedded |-> <<query>>,
   queries |-> IF fault = "embed" THEN 0 ELSE 1,
   indexCalls |-> IF fault = "embed" THEN <<>> ELSE <<"query", "upsert">>,
   results |-> IF fault = "none"
               THEN searchResults(response, orElse(options.minScore, defaultMinScore))
               ELSE <<>>]

\* PineconeVectorDB.search: the query is embedded, the index queried, the matches
\* filtered and banded; a failure of either call is thrown again. indexCalls are
\* the methods of the index that the call invokes.
search(query, options, response, fault) ==
  [ok |-> fault = "none",
   topK |-> orElse(options.topK, defaultTopK),
   filter |-> options.filter,
   embedded |-> <<query>>,
   queries |-> IF fault = "embed" THEN 0 ELSE 1,
   indexCalls |-> IF fault = "embed" THEN <<>> ELSE <<"query">>,
   results |-> IF fault = "none"
               THEN searchResults(response, orElse(options.minScore, defaultMinScore))
               ELSE <<>>]

\* no filter
NoFilter == [projectId |-> <<>>, fileType |-> ""]
NoOptions == [topK |-> Absent, minScore |-> Absent, filter |-> NoFilter]

SearchFaults == {"none", "embed", "query"}
MinScoreOptions == {Absent, Given(0), Given(50), Given(80)}

\* the limits a caller passes
TopKOptions == {Absent, Given(0), Given(1), Given(3)}

\* a call of search; the index answers with at most the number of matches asked for
Search(query, topK, minScore, response, fault) ==
  /\ call.op = "none"
  /\ LET options == [NoOptions EXCEPT !.topK = topK, !.minScore = minScore]
         r == search(query, options, response, fault)
     IN  /\ Len(response) <= r.topK
         /\ call' = [op |-> "search", query |-> query, options |-> options, topK |-> r.topK,
                     response |-> response,
                     outcome |-> IF r.ok THEN "resolved" ELSE "rejected",
                     results |-> r.results, embedded |-> r.embedded, queries |-> r.queries,
                     indexCalls |-> r.indexCalls]
  /\ UNCHANGED indexerVars

(***************************************************************************)
(* RAGEngine.enhance. The prompt is the sequence of the fragments that the *)
(* code appends to it, in the order in which it appends them.              *)
(***************************************************************************)
NoProject == [has |-> FALSE, id |-> <<>>, name |-> <<>>, unityVersion |-> <<>>]
ProjectContext == [has |-> TRUE, id |-> ProjectRoot, name |-> basename(ProjectRoot),
                   unityVersion |-> <<"6",".","0">>]

NoProfile == [has |-> FALSE, unityVersion |-> <<>>, gpu |-> "", bracesStyle |-> "",
              errorHistory |-> <<>>]
\* a user profile: hardware and codeStyle are required fields of the type
UserProfile(errorHistory) ==
  [has |-> TRUE, unityVersion |-> <<"6",".","0">>, gpu |-> "gpu", bracesStyle |-> "same-line",
   errorHistory |-> errorHistory]

\* retrieveRelevantDocs: a search scoped to the project, or a global one
retrieveRelevantDocs(query, projectContext, topK, fileType, response, fault) ==
  LET k == orElse(topK, defaultTopK)
  IN  search(query,
             [topK |-> Given(k), minScore |-> Absent,
              filter |-> [projectId |-> IF projectContext.has THEN projectContext.id ELSE <<>>,
                          fileType |-> fileType]],
             response, fault)

Fragment(kind) == [kind |-> kind, index |-> 0, filePath |-> <<>>, relevance |-> "", text |-> <<>>]

\* buildEnhancedContext: profile summary, project summary, retrieved documents
buildEnhancedContext(query, retrievedDocs, projectContext, userProfile) ==
  (IF userProfile.has THEN <<Fragment("userProfile")>> ELSE <<>>)
  \o (IF projectContext.has THEN <<Fragment("projectContext")>> ELSE <<>>)
  \o (IF Len(retrievedDocs) > 0
      THEN <<Fragment("relevantCode")>>
           \o [n \in 1..Len(retrievedDocs) |->
                 [Fragment("document") EXCEPT
                    !.index = n,
                    !.filePath = retrievedDocs[n].document.metadata.filePath,
                    !.relevance = retrievedDocs[n].relevance,
                    !.text = retrievedDocs[n].document.content]]
      ELSE <<>>)

\* enhance, once retrieveRelevantDocs has returned
enhance(query, projectContext, userProfile, retrievedDocs) ==
  LET intent == analyzeQueryIntent(query)
  IN  [query |-> query,
       retrievedDocuments |-> retrievedDocs,
       enhancedPrompt |->
         buildEnhancedContext(query, retrievedDocs, projectContext, userProfile)
         \o (IF intent.unitySpecific
             THEN <<[Fragment("unityPractices") EXCEPT
                       !.text = IF projectContext.has /\ projectContext.unityVersion # <<>>
                                THEN projectContext.unityVersion ELSE <<"6">>]>>
             ELSE <<>>)
         \o (IF userProfile.has THEN <<Fragment("hardware")>> ELSE <<>>)
         \o <<[Fragment("userQuery") EXCEPT !.text = query]>>
         \o (IF intent.type = "code-generation" /\ userProfile.has
             THEN <<Fragment("codeStyle")>> ELSE <<>>)]

\* the queries enhance is exercised with: every combination of a code-generation
\* intent and a Unity keyword
EnhanceQueries ==
  {ScenarioC, QueryOf(<<1, 7>>), QueryOf(<<3>>), QueryOf(<<7>>), QueryOf(<<6>>)}

Enhance(query, projectContext, userProfile, response, fault) ==
  /\ call.op = "none"
  /\ fault # "none" => response = <<>>
  /\ LET r == retrieveRelevantDocs(query, projectContext, Absent, "", response, fault)
     IN  call' = [op |-> "enhance", query |-> query, projectContext |-> projectContext,
                  userProfile |-> userProfile, response |-> response,
                  outcome |-> IF r.ok THEN "resolved" ELSE "rejected",
                  indexCalls |-> r.indexCalls,
                  result |-> IF r.ok
                             THEN <<enhance(query, projectContext, userProfile, r.results)>>
                             ELSE <<>>]
  /\ UNCHANGED indexerVars

(***************************************************************************)
(* RAGEngine.findErrorSolution.                                            *)
(***************************************************************************)
ErrorEntry(error, solution) == [error |-> error, solution |-> solution]

\* the entries an error history is made of
ErrorEntries ==
  {ErrorEntry(<<"N","u","l","l","R","e","f">>, "use a null check"),
   ErrorEntry(<<"n","u","l","l">>, "initialise the field"),
   ErrorEntry(<<"C","S","0","1">>, "add the using directive"),
   ErrorEntry(<<>>, "restart the editor")}

ErrorHistories == UNION {[1..n -> ErrorEntries] : n \in 0..MaxHistory}

ErrorMessages ==
  {<<"N","u","l","l","R","e","f"," ","a","t"," ","X">>, <<"n","u","l","l","r","e","f">>, <<"c","s","0","1","!">>, <<"o","t","h","e","r">>}

errorQueryPrefix == <<"U","n","i","t","y"," ","e","r","r","o","r"," ","s","o","l","u","t","i","o","n",":"," ">>
errorTopK == 3
certainScore == 100

\* a search of the history that returns the last matching entry
findLastSimilar(errorHistory, errorMessage) ==
  LET hits == {n \in 1..Len(errorHistory) :
                 includes(toLowerCase(errorMessage), toLowerCase(errorHistory[n].error))}
  IN  IF hits = {} THEN 0 ELSE CHOOSE n \in hits : \A m \in hits : m <= n

\* errorHistory.find(...): the index of the first entry whose error text occurs
\* in the message, both lower-cased; 0 when there is none
findSimilar(errorHistory, errorMessage) ==
  LET hits == {n \in 1..Len(errorHistory) :
                 includes(toLowerCase(errorMessage), toLowerCase(errorHistory[n].error))}
  IN  IF hits = {} THEN 0 ELSE CHOOSE n \in hits : \A m \in hits : n <= m

findErrorSolution(errorMessage, userProfile, response, fault) ==
  LET similar == IF userProfile.has THEN findSimilar(userProfile.errorHistory, errorMessage)
                 ELSE 0
  IN  IF similar # 0
      THEN [ok |-> TRUE, topK |-> 0, filter |-> NoFilter, embedded |-> <<>>, queries |-> 0,
            indexCalls |-> <<>>,
            results |->
              <<[document |-> [id |-> "user-error-history",
                               content |-> userProfile.errorHistory[similar].solution,
                               metadata |-> [content |-> <<>>, filePath |-> "error-history",
                                             fileType |-> "documentation"]],
                 score |-> certainScore, relevance |-> "high"]>>]
      ELSE search(errorQueryPrefix \o errorMessage,
                  [topK |-> Given(errorTopK), minScore |-> Absent,
                   filter |-> [projectId |-> <<>>, fileType |-> "documentation"]],
                  response, fault)

FindErrorSolution(errorMessage, userProfile, response, fault) ==
  /\ call.op = "none"
  /\ fault # "none" => response = <<>>
  /\ LET r == findErrorSolution(errorMessage, userProfile, response, fault)
     IN  call' = [op |-> "findErrorSolution", errorMessage |-> errorMessage,
                  userProfile |-> userProfile, response |-> response,
                  outcome |-> IF r.ok THEN "resolved" ELSE "rejected",
                  results |-> r.results, embedded |-> r.embedded, queries |-> r.queries,
                  indexCalls |-> r.indexCalls]
  /\ UNCHANGED indexerVars

(***************************************************************************)
(* RAGEngine.findSimilarCode and RAGEngine.getUnityAPIDocumentation.       *)
(***************************************************************************)
similarQueryPrefix == <<"F","i","n","d"," ","s","i","m","i","l","a","r"," ","c","o","d","e",":"," ">>
apiQueryPrefix ==
  <<"U","n","i","t","y"," ","A","P","I"," ","d","o","c","u","m","e","n","t","a","t","i","o","n",
    " ","f","o","r"," ">>
similarTopK == 3
apiTopK == 3

findSimilarCode(codeSnippet, projectContext, topK, response, fault) ==
  retrieveRelevantDocs(similarQueryPrefix \o codeSnippet, projectContext, Given(topK), "script",
                       response, fault)

getUnityAPIDocumentation(apiName, response, fault) ==
  search(apiQueryPrefix \o apiName,
         [topK |-> Given(apiTopK), minScore |-> Absent,
          filter |-> [projectId |-> <<>>, fileType |-> "documentation"]],
         response, fault)

FindSimilarCode(codeSnippet, projectContext, response, fault) ==
  /\ call.op = "none"
  /\ fault # "none" => response = <<>>
  /\ LET r == findSimilarCode(codeSnippet, projectContext, similarTopK, response, fault)
     IN  call' = [op |-> "findSimilarCode", codeSnippet |-> codeSnippet,
                  projectContext |-> projectContext, response |-> response,
                  outcome |-> IF r.ok THEN "resolved" ELSE "rejected", topK |-> r.topK,
                  filter |-> r.filter, results |-> r.results, embedded |-> r.embedded,
                  indexCalls |-> r.indexCalls]
  /\ UNCHANGED indexerVars

GetUnityAPIDocumentation(apiName, response, fault) ==
  /\ call.op = "none"
  /\ fault # "none" => response = <<>>
  /\ LET r == getUnityAPIDocumentation(apiName, response, fault)
     IN  call' = [op |-> "getUnityAPIDocumentation", apiName |-> apiName, response |-> response,
                  outcome |-> IF r.ok THEN "resolved" ELSE "rejected", topK |-> r.topK,
                  filter |-> r.filter, results |-> r.results, embedded |-> r.embedded,
                  indexCalls |-> r.indexCalls]
  /\ UNCHANGED indexerVars

\* the texts the two are called with
Snippets == {<<"v","o","i","d"," ","F","(",")">>}
ApiNames == {<<"R","i","g","i","d","b","o","d","y">>}

(***************************************************************************)
(* The chunker on its own.                                                 *)
(***************************************************************************)
\* the pieces the scripts given to the chunker are made of
ScriptPieces ==
  <<<<"c","l","a","s","s"," ","A","{">>,
    <<"p","u","b","l","i","c"," ","v"," ","f","(",")","{","}">>,
    <<"p","r","i","v","a","t","e"," ","i","n","t"," ","g","(",")","{","r","e","t","u","r","n"," ","1",";","}">>,
    <<"}">>,
    <<" ","\n">>,
    <<"x","=","1",";">>>>

\* the pieces of ps (indices into ScriptPieces) one after the other
RECURSIVE ScriptOf(_)
ScriptOf(ps) == IF ps = <<>> THEN <<>> ELSE ScriptPieces[ps[1]] \o ScriptOf(Tail(ps))

ChunkInputs ==
  {ScriptOf(ps) : ps \in UNION {[1..n -> 1..Len(ScriptPieces)] : n \in 0..MaxPieces}}

\* values of maxChunkSize
ChunkSizes == {6, 16, 24}

ChunkScript(content, maxChunkSize) ==
  /\ call.op = "none"
  /\ call' = [op |-> "chunkScript", content |-> content, maxChunkSize |-> maxChunkSize,
              chunks |-> chunkScript(content, maxChunkSize)]
  /\ UNCHANGED indexerVars

(***************************************************************************)
(* CodeStyleAnalyzer.calculateConfidence. Numbers are exact fractions      *)
(* [num, den] with den > 0, and so is the confidence of a pattern.         *)
(***************************************************************************)
Hundredths == 100
fullFileCount == 10

Fraction(num, den) == [num |-> num, den |-> den]
FractionTimes(a, b) == Fraction(a.num * b.num, a.den * b.den)
FractionLeq(a, b) == a.num * b.den <= b.num * a.den
FractionEq(a, b) == a.num * b.den = b.num * a.den

RECURSIVE Gcd(_, _)
Gcd(a, b) == IF b = 0 THEN a ELSE Gcd(b, a % b)
\* the same number in lowest terms
Lowest(a) == LET g == Gcd(a.num, a.den) IN Fraction(a.num \div g, a.den \div g)
FractionPlus(a, b) == Lowest(Fraction(a.num * b.den + b.num * a.den, a.den * b.den))

\* patterns.reduce((sum, p) => sum + p.confidence, 0)
RECURSIVE totalConfidence(_)
totalConfidence(patterns) ==
  IF patterns = <<>> THEN Fraction(0, 1)
  ELSE FractionPlus(patterns[1].confidence, totalConfidence(Tail(patterns)))

\* a factor that is not capped
fileCountFactorUncapped(fileCount) == Fraction(fileCount, fullFileCount)

\* Math.min(fileCount / 10, 1)
fileCountFactor(fileCount) ==
  IF fileCount < fullFileCount THEN Fraction(fileCount, fullFileCount) ELSE Fraction(1, 1)

calculateConfidence(patterns, fileCount) ==
  IF Len(patterns) = 0 THEN Fraction(0, 1)
  ELSE LET total == totalConfidence(patterns)
           avgConfidence == Fraction(total.num, total.den * Len(patterns))
       IN  FractionTimes(avgConfidence, fileCountFactor(fileCount))

\* the confidences the analyzer gives a pattern, in hundredths: above 0, at most 1
ConfidenceValues == {1, 50, 81, 90, 100}
PatternLists ==
  UNION {[1..n -> {[confidence |-> Fraction(v, Hundredths)] : v \in ConfidenceValues}] :
           n \in 0..MaxPatterns}

CalculateConfidence(patterns, fileCount) ==
  /\ call.op = "none"
  /\ call' = [op |-> "calculateConfidence", patterns |-> patterns, fileCount |-> fileCount,
              result |-> calculateConfidence(patterns, fileCount)]
  /\ UNCHANGED indexerVars

(***************************************************************************)
(* CodeStyleAnalyzer: the scans of analyzeProject. A pattern is the record *)
(* [type, pattern, frequency, confidence, examples] of CodePattern, its    *)
(* label a text, so that applyStyle's tests of the label are computed.     *)
(***************************************************************************)
classThreshold == 80
maxExamples == 3

IsUpper(c) == \E i \in 1..Len(UpperCase) : UpperCase[i] = c
IsLower(c) == \E i \in 1..Len(LowerCase) : LowerCase[i] = c
IsAlnum(c) == IsWord(c) /\ c # "_"

\* /^[A-Z][a-zA-Z0-9]*$/, /^[a-z][a-zA-Z0-9]*$/ and /^_[a-z][a-zA-Z0-9]*$/
IsPascalCase(name) ==
  name # <<>> /\ IsUpper(name[1]) /\ \A k \in 2..Len(name) : IsAlnum(name[k])
IsCamelCase(name) ==
  name # <<>> /\ IsLower(name[1]) /\ \A k \in 2..Len(name) : IsAlnum(name[k])
IsUnderscore(name) ==
  Len(name) >= 2 /\ name[1] = "_" /\ IsLower(name[2]) /\ \A k \in 3..Len(name) : IsAlnum(name[k])

\* the texts of a list one after the other
RECURSIVE Flatten(_)
Flatten(lists) == IF lists = <<>> THEN <<>> ELSE lists[1] \o Flatten(Tail(lists))

\* array.slice(0, n)
Slice(list, n) == SubSeq(list, 1, Min(n, Len(list)))

\* the smallest element of a non-empty set of numbers
Least(set) == CHOOSE q \in set : \A r \in set : q <= r

\* script.matchAll(/class\s+(\w+)/g) from position p on: the captured names
RECURSIVE ClassNamesFrom(_, _)
ClassNamesFrom(s, p) ==
  LET hits == {q \in p..Len(s) : ClassAt(s, q)}
  IN  IF hits = {} THEN <<>>
      ELSE LET b == SkipWs(s, Least(hits) + Len(kwClass))
               e == SkipWord(s, b)
           IN  <<SubSeq(s, b, e - 1)>> \o ClassNamesFrom(s, e)

\* /(?:public|private|protected)\s+\w+\s+(\w+)\s*X/ at position p, X one of
\* closers: the position of X (0 when the pattern does not match at p) and the
\* captured name
MemberAt(s, p, closers) ==
  IF \E kw \in {kwPublic, kwPrivate, kwProtected} : HasAt(s, p, kw)
  THEN LET kw == CHOOSE w \in {kwPublic, kwPrivate, kwProtected} : HasAt(s, p, w)
           a == p + Len(kw)
           b == SkipWs(s, a)
           c == SkipWord(s, b)
           d == SkipWs(s, c)
           e == SkipWord(s, d)
           f == SkipWs(s, e)
       IN  IF b > a /\ c > b /\ d > c /\ e > d /\ f <= Len(s) /\ s[f] \in closers
           THEN [at |-> f, name |-> SubSeq(s, d, e - 1)]
           ELSE [at |-> 0, name |-> <<>>]
  ELSE [at |-> 0, name |-> <<>>]

\* matchAll of the member pattern from position p on: the captured names
RECURSIVE MemberNamesFrom(_, _, _)
MemberNamesFrom(s, p, closers) ==
  LET hits == {q \in p..Len(s) : MemberAt(s, q, closers).at # 0}
  IN  IF hits = {} THEN <<>>
      ELSE LET m == MemberAt(s, Least(hits), closers)
           IN  <<m.name>> \o MemberNamesFrom(s, m.at + 1, closers)

Pattern(type, label, frequency, confidence, examples) ==
  [type |-> type, pattern |-> label, frequency |-> frequency, confidence |-> confidence,
   examples |-> examples]

labelPascalClasses == <<"P","a","s","c","a","l","C","a","s","e"," ","f","o","r"," ","c","l","a","s","s","e","s">>
labelPascalMethods == <<"P","a","s","c","a","l","C","a","s","e"," ","f","o","r"," ","m","e","t","h","o","d","s">>
labelCamelMethods == <<"c","a","m","e","l","C","a","s","e"," ","f","o","r"," ","m","e","t","h","o","d","s">>
labelUnderscore == <<"U","n","d","e","r","s","c","o","r","e"," ","p","r","e","f","i","x"," ","f","o","r"," ","p","r","i","v","a","t","e"," ","f","i","e","l","d","s">>

\* the number of elements of a list that pass a test
Count(list, Test(_)) == Len(SelectSeq(list, Test))

\* a threshold that the proportion may also equal
classNamingInclusive(classNames) ==
  LET pascalCase == Count(classNames, IsPascalCase)
  IN  IF Len(classNames) > 0 /\ pascalCase * Hundredths >= classThreshold * Len(classNames)
      THEN <<Pattern("naming", labelPascalClasses, pascalCase,
                     Fraction(pascalCase, Len(classNames)), Slice(classNames, maxExamples))>>
      ELSE <<>>

\* analyzeNaming, class naming: percentPascal = (pascalCase / classNames.length) * 100
classNaming(classNames) ==
  LET pascalCase == Count(classNames, IsPascalCase)
  IN  IF Len(classNames) > 0 /\ pascalCase * Hundredths > classThreshold * Len(classNames)
      THEN <<Pattern("naming", labelPascalClasses, pascalCase,
                     Fraction(pascalCase, Len(classNames)), Slice(classNames, maxExamples))>>
      ELSE <<>>

\* analyzeNaming, method naming
methodNaming(methodNames) ==
  LET pascalCase == Count(methodNames, IsPascalCase)
      camelCase == Count(methodNames, IsCamelCase)
  IN  IF Len(methodNames) > 0 /\ pascalCase > camelCase
      THEN <<Pattern("naming", labelPascalMethods, pascalCase,
                     Fraction(pascalCase, Len(methodNames)),
                     Slice(SelectSeq(methodNames, LAMBDA n : IsUpper(n[1])), maxExamples))>>
      ELSE IF Len(methodNames) > 0 /\ camelCase > pascalCase
      THEN <<Pattern("naming", labelCamelMethods, camelCase,
                     Fraction(camelCase, Len(methodNames)),
                     Slice(SelectSeq(methodNames, LAMBDA n : IsLower(n[1])), maxExamples))>>
      ELSE <<>>

\* analyzeNaming, variable naming: underscore > camelCase * 0.5
variableNaming(variableNames) ==
  LET camelCase == Count(variableNames, IsCamelCase)
      underscore == Count(variableNames, IsUnderscore)
  IN  IF Len(variableNames) > 0 /\ 2 * underscore > camelCase
      THEN <<Pattern("naming", labelUnderscore, underscore,
                     Fraction(underscore, Len(variableNames)),
                     Slice(SelectSeq(variableNames, LAMBDA n : n[1] = "_"), maxExamples))>>
      ELSE <<>>

analyzeNaming(scripts) ==
  classNaming(Flatten([k \in 1..Len(scripts) |-> ClassNamesFrom(scripts[k], 1)]))
  \o methodNaming(Flatten([k \in 1..Len(scripts) |-> MemberNamesFrom(scripts[k], 1, {"("})]))
  \o variableNaming(Flatten([k \in 1..Len(scripts) |-> MemberNamesFrom(scripts[k], 1, {";", "="})]))

labelSameLine == <<"S","a","m","e","-","l","i","n","e"," ","b","r","a","c","e","s">>
labelNewLine == <<"N","e","w","-","l","i","n","e"," ","b","r","a","c","e","s">>
labelIndentation == <<"-","s","p","a","c","e"," ","i","n","d","e","n","t","a","t","i","o","n">>
examplesSameLine ==
  <<<<"m","e","t","h","o","d","(",")"," ","{">>,
    <<"i","f"," ","(","c","o","n","d","i","t","i","o","n",")"," ","{">>>>
examplesNewLine ==
  <<<<"m","e","t","h","o","d","(",")","\\","n","{">>,
    <<"i","f"," ","(","c","o","n","d","i","t","i","o","n",")","\\","n","{">>>>

\* /\)\s*{/ matches at p: the position of the brace, or 0
SameLineAt(s, p) ==
  IF p <= Len(s) /\ s[p] = ")" /\ SkipWs(s, p + 1) <= Len(s) /\ s[SkipWs(s, p + 1)] = "{"
  THEN SkipWs(s, p + 1) ELSE 0

\* /\)\s*\n\s*{/ matches at p: the position of the brace, or 0
NewLineAt(s, p) ==
  IF SameLineAt(s, p) # 0 /\ \E q \in p + 1..SameLineAt(s, p) - 1 : s[q] = "\n"
  THEN SameLineAt(s, p) ELSE 0

\* script.match(/\)\s*{/g) and script.match(/\)\s*\n\s*{/g): the number of matches
\* (a match holds one parenthesis, so that no two overlap)
sameLineMatches(script) == Cardinality({p \in 1..Len(script) : SameLineAt(script, p) # 0})
newLineMatches(script) == Cardinality({p \in 1..Len(script) : NewLineAt(script, p) # 0})

RECURSIVE Sum(_)
Sum(numbers) == IF numbers = <<>> THEN 0 ELSE numbers[1] + Sum(Tail(numbers))

\* the placements with the brace on the parenthesis's own line: the matches of
\* /\)\s*{/ that are not matches of /\)\s*\n\s*{/
sameLineOnly(scripts) ==
  Sum([k \in 1..Len(scripts) |-> sameLineMatches(scripts[k]) - newLineMatches(scripts[k])])

\* analyzeFormatting: sameLine, summed over the scripts
sameLineCount(scripts) == Sum([k \in 1..Len(scripts) |-> sameLineMatches(scripts[k])])
\* analyzeFormatting: newLine, summed over the scripts
newLineCount(scripts) == Sum([k \in 1..Len(scripts) |-> newLineMatches(scripts[k])])

\* analyzeFormatting, brace style
braceStyle(scripts) ==
  LET sameLine == sameLineCount(scripts)
      newLine == newLineCount(scripts)
  IN  IF sameLine > newLine
      THEN <<Pattern("formatting", labelSameLine, sameLine,
                     Fraction(sameLine, sameLine + newLine), examplesSameLine)>>
      ELSE IF newLine > sameLine
      THEN <<Pattern("formatting", labelNewLine, newLine,
                     Fraction(newLine, sameLine + newLine), examplesNewLine)>>
      ELSE <<>>

\* script.split('\n') from position p on
RECURSIVE Lines(_, _)
Lines(s, p) ==
  LET ends == {q \in p..Len(s) : s[q] = "\n"}
  IN  IF ends = {} THEN <<SubSeq(s, p, Len(s))>>
      ELSE <<SubSeq(s, p, Least(ends) - 1)>> \o Lines(s, Least(ends) + 1)

\* line.match(/^(\s+)/): the lengths of the leading white space of the lines that
\* start with some
indentationSizesOf(script) ==
  LET lines == Lines(script, 1)
      indented == SelectSeq(lines, LAMBDA line : SkipWs(line, 1) > 1)
  IN  [k \in 1..Len(indented) |-> SkipWs(indented[k], 1) - 1]

\* findMostCommon: the value whose count first reaches the highest count; m = the
\* counts so far, the highest of them and the value that reached it
RECURSIVE MostCommonFrom(_, _, _)
MostCommonFrom(arr, k, m) ==
  IF k > Len(arr) THEN m.mostCommon
  ELSE LET value == arr[k]
           freq == (IF value \in DOMAIN m.frequency THEN m.frequency[value] ELSE 0) + 1
           frequency == MapSet(m.frequency, value, freq)
       IN  MostCommonFrom(arr, k + 1,
             IF freq > m.maxFreq
             THEN [frequency |-> frequency, maxFreq |-> freq, mostCommon |-> value]
             ELSE [m EXCEPT !.frequency = frequency])

findMostCommon(arr) ==
  MostCommonFrom(arr, 1, [frequency |-> [v \in {} |-> 0], maxFreq |-> 0, mostCommon |-> 0])

Digits == <<"0","1","2","3","4","5","6","7","8","9">>
\* the decimal digits of a number, as `${n}` writes it
RECURSIVE ToDigits(_)
ToDigits(n) == IF n < 10 THEN <<Digits[n + 1]>> ELSE Append(ToDigits(n \div 10), Digits[(n % 10) + 1])

\* ' '.repeat(n)
Spaces(n) == [k \in 1..n |-> " "]

\* analyzeFormatting, indentation
indentation(scripts) ==
  LET indentationSizes == Flatten([k \in 1..Len(scripts) |-> indentationSizesOf(scripts[k])])
      mostCommon == findMostCommon(indentationSizes)
  IN  IF Len(indentationSizes) > 0
      THEN <<Pattern("formatting", ToDigits(mostCommon) \o labelIndentation,
                     Count(indentationSizes, LAMBDA size : size = mostCommon),
                     Fraction(9, 10), <<Spaces(mostCommon) \o <<"c","o","d","e">>>>)>>
      ELSE <<>>

analyzeFormatting(scripts) == braceStyle(scripts) \o indentation(scripts)

\* position of the last occurrence of lit, in the lower-cased text t, that starts
\* at b or after word characters that start at b: \w*lit tried at b; 0 when none
SuffixInRun(t, b, lit) ==
  LET hits == {q \in b..SkipWord(t, b) : HasAt(t, q, lit)}
  IN  IF hits = {} THEN 0 ELSE CHOOSE q \in hits : \A r \in hits : r <= q

\* the design patterns' expressions tried at position p of a script, of which t is
\* the lower-cased text (flag i): the position after the match, or 0

\* /private static \w+ instance/i
SingletonAt(t, p) ==
  LET a == p + Len(<<"p","r","i","v","a","t","e"," ","s","t","a","t","i","c"," ">>)
      e == SkipWord(t, a)
  IN  IF HasAt(t, p, <<"p","r","i","v","a","t","e"," ","s","t","a","t","i","c"," ">>) /\ e > a /\ HasAt(t, e, <<" ","i","n","s","t","a","n","c","e">>)
      THEN e + Len(<<" ","i","n","s","t","a","n","c","e">>) ELSE 0

\* /event\s+\w+/i
ObserverAt(t, p) ==
  LET a == p + Len(<<"e","v","e","n","t">>)
      b == SkipWs(t, a)
  IN  IF HasAt(t, p, <<"e","v","e","n","t">>) /\ b > a /\ SkipWord(t, b) > b THEN SkipWord(t, b) ELSE 0

\* /Create\w+\(/i
FactoryAt(t, p) ==
  LET a == p + Len(<<"c","r","e","a","t","e">>)
      e == SkipWord(t, a)
  IN  IF HasAt(t, p, <<"c","r","e","a","t","e">>) /\ e > a /\ HasAt(t, e, <<"(">>) THEN e + 1 ELSE 0

\* /ObjectPool|Pool\w+/i
PoolingAt(t, p) ==
  LET a == p + Len(<<"p","o","o","l">>)
  IN  IF HasAt(t, p, <<"o","b","j","e","c","t","p","o","o","l">>) THEN p + Len(<<"o","b","j","e","c","t","p","o","o","l">>)
      ELSE IF HasAt(t, p, <<"p","o","o","l">>) /\ SkipWord(t, a) > a THEN SkipWord(t, a)
      ELSE 0

\* /enum\s+\w*State|State\s+currentState/i
StateMachineAt(t, p) ==
  LET a == p + Len(<<"e","n","u","m">>)
      b == SkipWs(t, a)
      c == p + Len(<<"s","t","a","t","e">>)
      d == SkipWs(t, c)
  IN  IF HasAt(t, p, <<"e","n","u","m">>) /\ b > a /\ SuffixInRun(t, b, <<"s","t","a","t","e">>) # 0
      THEN SuffixInRun(t, b, <<"s","t","a","t","e">>) + Len(<<"s","t","a","t","e">>)
      ELSE IF HasAt(t, p, <<"s","t","a","t","e">>) /\ d > c /\ HasAt(t, d, <<"c","u","r","r","e","n","t","s","t","a","t","e">>)
      THEN d + Len(<<"c","u","r","r","e","n","t","s","t","a","t","e">>)
      ELSE 0

\* /interface\s+I\w*Command|class\s+\w*Command/i
CommandAt(t, p) ==
  LET a == p + Len(<<"i","n","t","e","r","f","a","c","e">>)
      b == SkipWs(t, a)
      c == p + Len(<<"c","l","a","s","s">>)
      d == SkipWs(t, c)
  IN  IF /\ HasAt(t, p, <<"i","n","t","e","r","f","a","c","e">>) /\ b > a /\ HasAt(t, b, <<"i">>)
         /\ SuffixInRun(t, b + 1, <<"c","o","m","m","a","n","d">>) # 0
      THEN SuffixInRun(t, b + 1, <<"c","o","m","m","a","n","d">>) + Len(<<"c","o","m","m","a","n","d">>)
      ELSE IF HasAt(t, p, <<"c","l","a","s","s">>) /\ d > c /\ SuffixInRun(t, d, <<"c","o","m","m","a","n","d">>) # 0
      THEN SuffixInRun(t, d, <<"c","o","m","m","a","n","d">>) + Len(<<"c","o","m","m","a","n","d">>)
      ELSE 0

\* the entries of designPatterns, in their order
designPatterns ==
  <<<<"S","i","n","g","l","e","t","o","n">>, <<"O","b","s","e","r","v","e","r">>, <<"F","a","c","t","o","r","y">>, <<"O","b","j","e","c","t"," ","P","o","o","l","i","n","g">>, <<"S","t","a","t","e"," ","M","a","c","h","i","n","e">>, <<"C","o","m","m","a","n","d">>>>

DesignAt(n, t, p) ==
  CASE n = 1 -> SingletonAt(t, p)
    [] n = 2 -> ObserverAt(t, p)
    [] n = 3 -> FactoryAt(t, p)
    [] n = 4 -> PoolingAt(t, p)
    [] n = 5 -> StateMachineAt(t, p)
    [] n = 6 -> CommandAt(t, p)

\* script.match(regex) without flag g: the text of the leftmost match in a list of
\* one, or the empty list
designMatch(n, script) ==
  LET t == toLowerCase(script)
      hits == {p \in 1..Len(script) : DesignAt(n, t, p) # 0}
  IN  IF hits = {} THEN <<>>
      ELSE <<SubSeq(script, Least(hits), DesignAt(n, t, Least(hits)) - 1)>>

\* a confidence that is not capped
capUncapped(x) == x

\* Math.min(x, 1)
cap(x) == IF FractionLeq(x, Fraction(1, 1)) THEN x ELSE Fraction(1, 1)

\* examples.length < 3: the first three matches
examplesOf(matches) == Slice(matches, maxExamples)

analyzeArchitecture(scripts) ==
  Flatten([n \in 1..Len(designPatterns) |->
    LET matches == Flatten([k \in 1..Len(scripts) |-> designMatch(n, scripts[k])])
        frequency == Len(matches)
    IN  IF frequency > 0
        THEN <<Pattern("architecture", designPatterns[n], frequency,
                       cap(Fraction(frequency, Len(scripts))), examplesOf(matches))>>
        ELSE <<>>])

commonComponents ==
  <<<<"M","o","n","o","B","e","h","a","v","i","o","u","r">>, <<"S","c","r","i","p","t","a","b","l","e","O","b","j","e","c","t">>, <<"N","e","t","w","o","r","k","B","e","h","a","v","i","o","u","r">>, <<"R","i","g","i","d","b","o","d","y">>, <<"C","o","l","l","i","d","e","r">>,
    <<"T","r","a","n","s","f","o","r","m">>, <<"A","n","i","m","a","t","o","r">>>>
labelUsage == <<" ","u","s","a","g","e">>
minUsage == 2

\* script.match(new RegExp(`\\b${component}\\b`, 'g')): the number of matches
componentMatches(script, component) ==
  Cardinality({p \in 1..Len(script) :
                 /\ HasAt(script, p, component)
                 /\ p = 1 \/ ~IsWord(script[p - 1])
                 /\ p + Len(component) > Len(script) \/ ~IsWord(script[p + Len(component)])})

\* componentUsage: the components found, in the order in which the map got them
\* (script by script, within a script in the order of commonComponents)
RECURSIVE ComponentsSeen(_, _, _)
ComponentsSeen(scripts, k, seen) ==
  IF k > Len(scripts) THEN seen
  ELSE ComponentsSeen(scripts, k + 1,
         seen \o SelectSeq(commonComponents,
                   LAMBDA c : c \notin Range(seen) /\ componentMatches(scripts[k], c) > 0))

analyzeComponents(scripts) ==
  LET seen == ComponentsSeen(scripts, 1, <<>>)
      usage(c) == Sum([k \in 1..Len(scripts) |-> componentMatches(scripts[k], c)])
  IN  Flatten([n \in 1..Len(seen) |->
        IF usage(seen[n]) > minUsage
        THEN <<Pattern("component", seen[n] \o labelUsage, usage(seen[n]),
                       cap(Fraction(usage(seen[n]), Len(scripts) * 2)), <<seen[n]>>)>>
        ELSE <<>>])

\* analyzeProject, once getUnityScripts has returned the contents of the scripts
analyzeProject(scripts, lastAnalyzed) ==
  LET patterns == analyzeNaming(scripts) \o analyzeFormatting(scripts)
                  \o analyzeArchitecture(scripts) \o analyzeComponents(scripts)
  IN  [patterns |-> patterns, lastAnalyzed |-> lastAnalyzed, fileCount |-> Len(scripts),
       confidence |-> calculateConfidence(patterns, Len(scripts))]

(***************************************************************************)
(* CodeStyleAnalyzer.applyStyle.                                           *)
(***************************************************************************)
keyUnderscore == <<"u","n","d","e","r","s","c","o","r","e"," ","p","r","e","f","i","x">>
keyNewLine == <<"n","e","w","-","l","i","n","e"," ","b","r","a","c","e","s">>
keySameLine == <<"s","a","m","e","-","l","i","n","e"," ","b","r","a","c","e","s">>
keyIndentation == <<"i","n","d","e","n","t","a","t","i","o","n">>
defaultSpaces == 4

\* /private\s+(\w+)\s+([a-z]\w+)/ at position p: the position after the match (0
\* when the pattern does not match at p) and the two groups
PrivateFieldAt(s, p) ==
  LET a == p + Len(kwPrivate)
      b == SkipWs(s, a)
      c == SkipWord(s, b)
      d == SkipWs(s, c)
      e == SkipWord(s, d)
  IN  IF HasAt(s, p, kwPrivate) /\ b > a /\ c > b /\ d > c /\ d <= Len(s) /\ IsLower(s[d])
         /\ e > d + 1
      THEN [end |-> e, type |-> SubSeq(s, b, c - 1), name |-> SubSeq(s, d, e - 1)]
      ELSE [end |-> 0, type |-> <<>>, name |-> <<>>]

\* styledCode.replace(/private\s+(\w+)\s+([a-z]\w+)/g, `private ${type} _${name}`)
\* from position p on
RECURSIVE PrefixFields(_, _)
PrefixFields(s, p) ==
  LET hits == {q \in p..Len(s) : PrivateFieldAt(s, q).end # 0}
  IN  IF hits = {} THEN SubSeq(s, p, Len(s))
      ELSE LET q == Least(hits)
               m == PrivateFieldAt(s, q)
           IN  SubSeq(s, p, q - 1) \o kwPrivate \o <<" ">> \o m.type \o <<" ", "_">> \o m.name
               \o PrefixFields(s, m.end)

\* styledCode.replace(/\)\s*{/g, ')\n{') and, with onlyNewLine,
\* styledCode.replace(/\)\s*\n\s*{/g, ') {'), from position p on
RECURSIVE ReplaceBraces(_, _, _, _)
ReplaceBraces(s, p, onlyNewLine, replacement) ==
  LET at(q) == IF onlyNewLine THEN NewLineAt(s, q) ELSE SameLineAt(s, q)
      hits == {q \in p..Len(s) : at(q) # 0}
  IN  IF hits = {} THEN SubSeq(s, p, Len(s))
      ELSE SubSeq(s, p, Least(hits) - 1) \o replacement
           \o ReplaceBraces(s, at(Least(hits)) + 1, onlyNewLine, replacement)

\* the lines of a list joined by line feeds
RECURSIVE JoinLines(_)
JoinLines(lines) ==
  IF Len(lines) = 1 THEN lines[1] ELSE lines[1] \o <<"\n">> \o JoinLines(Tail(lines))

\* the loop of reindent from the k-th line on
RECURSIVE IndentFrom(_, _, _, _)
IndentFrom(lines, k, indentLevel, spaces) ==
  IF k > Len(lines) THEN <<>>
  ELSE LET trimmed == trim(lines[k])
           level == IF EndsWith(trimmed, <<"}">>)
                    THEN (IF indentLevel > 1 THEN indentLevel - 1 ELSE 0)
                    ELSE indentLevel
       IN  <<Spaces(level * spaces) \o trimmed>>
           \o IndentFrom(lines, k + 1,
                         IF EndsWith(trimmed, <<"{">>) THEN level + 1 ELSE level, spaces)

reindent(code, spaces) == JoinLines(IndentFrom(Lines(code, 1), 1, 0, spaces))

IsDigit(c) == \E i \in 1..Len(Digits) : Digits[i] = c
\* parseInt of a text of digits
RECURSIVE FromDigits(_)
FromDigits(ds) ==
  IF ds = <<>> THEN 0
  ELSE 10 * FromDigits(SubSeq(ds, 1, Len(ds) - 1))
       + (CHOOSE i \in 0..9 : Digits[i + 1] = ds[Len(ds)])

\* first position >= p that holds no digit
RECURSIVE SkipDigits(_, _)
SkipDigits(s, p) == IF p <= Len(s) /\ IsDigit(s[p]) THEN SkipDigits(s, p + 1) ELSE p

\* parseInt(pattern.pattern.match(/\d+/)?.[0] || '4')
spacesOf(label) ==
  LET hits == {p \in 1..Len(label) : IsDigit(label[p])}
  IN  IF hits = {} THEN defaultSpaces
      ELSE FromDigits(SubSeq(label, Least(hits), SkipDigits(label, Least(hits)) - 1))

\* pattern.pattern.includes(key)
labelHas(label, key) == includes(label, key)

\* namingPatterns.forEach from the k-th pattern on
RECURSIVE ApplyNaming(_, _, _)
ApplyNaming(styledCode, patterns, k) ==
  IF k > Len(patterns) THEN styledCode
  ELSE ApplyNaming(IF labelHas(patterns[k].pattern, keyUnderscore)
                   THEN PrefixFields(styledCode, 1) ELSE styledCode,
                   patterns, k + 1)

\* formattingPatterns.forEach from the k-th pattern on
RECURSIVE ApplyFormatting(_, _, _)
ApplyFormatting(styledCode, patterns, k) ==
  IF k > Len(patterns) THEN styledCode
  ELSE LET label == patterns[k].pattern
           braced == IF labelHas(label, keyNewLine)
                     THEN ReplaceBraces(styledCode, 1, FALSE, <<")", "\n", "{">>)
                     ELSE IF labelHas(label, keySameLine)
                     THEN ReplaceBraces(styledCode, 1, TRUE, <<")", " ", "{">>)
                     ELSE styledCode
           indented == IF labelHas(label, keyIndentation)
                       THEN reindent(braced, spacesOf(label)) ELSE braced
       IN  ApplyFormatting(indented, patterns, k + 1)

applyStyle(code, styleProfile) ==
  LET namingPatterns == SelectSeq(styleProfile.patterns, LAMBDA p : p.type = "naming")
      formattingPatterns == SelectSeq(styleProfile.patterns, LAMBDA p : p.type = "formatting")
  IN  ApplyFormatting(ApplyNaming(code, namingPatterns, 1), formattingPatterns, 1)

(***************************************************************************)
(* Calls of the style analyzer. The scripts of a call are the contents     *)
(* that getUnityScripts returns for the project.                           *)
(***************************************************************************)
\* n copies of a text, one after the other
RECURSIVE Repeat(_, _)
Repeat(text, n) == IF n = 0 THEN <<>> ELSE text \o Repeat(text, n - 1)

\* a project of one script that declares pascal types with leading-uppercase
\* alphanumeric names and others types with other names
TypeCorpus(pascal, others) ==
  <<Repeat(<<"c","l","a","s","s"," ","A","b","\n">>, pascal) \o Repeat(<<"c","l","a","s","s"," ",
     "a","_","b","\n">>, others)>>

\* the scripts general projects are made of
SampleScripts ==
  <<
    <<"c","l","a","s","s"," ","A","b","\n","{","\n"," ","p","u","b","l","i","c"," ","v","o","i",
      "d"," ","R","u","n","(",")","\n"," ","{","\n"," ","}","\n","}">>,
    <<"c","l","a","s","s"," ","a","b"," ","{","\n"," "," ","p","r","i","v","a","t","e"," ","i",
      "n","t"," ","g","o","(",")"," ","{","\n"," "," ","}","\n","}">>,
    <<"p","r","i","v","a","t","e"," ","i","n","t"," ","_","h","p",";","\n","p","r","i","v","a",
      "t","e"," ","i","n","t"," ","m","p"," ","="," ","1",";">>,
    <<"p","r","i","v","a","t","e"," ","s","t","a","t","i","c"," ","A","b"," ","i","n","s","t","a",
      "n","c","e",";","\n","T","r","a","n","s","f","o","r","m"," ","T","r","a","n","s","f","o",
      "r","m","\n","T","r","a","n","s","f","o","r","m"," ","T","r","a","n","s","f","o","r","m",
      " ","T","r","a","n","s","f","o","r","m">>,
    <<"p","r","i","v","a","t","e"," ","i","n","t"," ","h","p",";">>,
    <<" ","e","v","e","n","t"," ","A","b",";","\n","C","r","e","a","t","e","A","b","(",")","\n",
      "{">>
  >>

Corpora ==
  {TypeCorpus(pascal, others) : pascal \in 0..MaxTypes, others \in 0..MaxTypes}
  \cup UNION {[1..n -> Range(SampleScripts)] : n \in 0..MaxScripts}

\* the texts applyStyle is called with
Codes ==
  {<<"c","l","a","s","s"," ","A","\n","{","\n"," "," ","p","r","i","v","a","t","e"," ","i","n",
     "t"," ","h","p",";","\n"," "," ","v","o","i","d"," ","F","(",")"," ","{","\n"," "," ","}",
     "\n","}">>, <<"v","o","i","d"," ","F","(",")","\n","{","\n","}">>, <<"p","r","i","v","a","t",
     "e"," ","i","n","t"," ","x",";">>}

AnalyzeProject(projectPath, scripts) ==
  /\ call.op = "none"
  /\ allowedPaths' = allowedPaths \cup {projectPath}
  /\ call' = [op |-> "analyzeProject", projectPath |-> projectPath, scripts |-> scripts,
              profile |-> analyzeProject(scripts, now), indexCalls |-> <<>>]
  /\ UNCHANGED <<fs, edits, now, subs, watchers, fileChangeCallbacks, stopLog, tasks, ip, runs,
                 store, tokens>>

\* applyStyle on the profile that analyzeProject has returned
ApplyStyle(code) ==
  /\ call.op = "analyzeProject"
  /\ call' = [op |-> "applyStyle", code |-> code, profile |-> call.profile,
              result |-> applyStyle(code, call.profile), indexCalls |-> <<>>]
  /\ UNCHANGED indexerVars

(***************************************************************************)
(* useUserProfileStore on its own. call holds the state of the store: the  *)
(* name, the ids of the projects and stats. A number that a division makes  *)
(* is kept as a fraction in lowest terms; lastUpdated is "loaded" for the   *)
(* Date.now() of defaultUserProfile and "later" for one taken by an action. *)
(***************************************************************************)
\* { ...a, ...b }
Spread(a, b) ==
  [f \in DOMAIN a \cup DOMAIN b |-> IF f \in DOMAIN b THEN b[f] ELSE a[f]]

\* the fields of defaultUserProfile that the actions below read or write
defaultUserProfile ==
  [name |-> "", projects |-> <<>>,
   stats |-> [totalConversations |-> 0, feedbackScores |-> <<>>,
              averageFeedback |-> Fraction(0, 1), lastUpdated |-> "loaded"]]

\* create(persist(...)): the store starts as defaultUserProfile
CreateStore ==
  /\ call.op = "none"
  /\ call' = Spread([op |-> "profile"], defaultUserProfile)
  /\ UNCHANGED indexerVars

\* update(values): values are spread over the state, then stats is set from
\* the stats of the state before
update(values) ==
  /\ call.op = "profile"
  /\ call' = Spread(Spread(call, values),
                    [stats |-> Spread(call.stats, [lastUpdated |-> "later"])])
  /\ UNCHANGED indexerVars

\* addProject(project)
addProject(project) ==
  /\ call.op = "profile"
  /\ Len(call.projects) < MaxProjects
  /\ call' = Spread(call, [projects |-> Append(call.projects, project)])
  /\ UNCHANGED indexerVars

\* removeProject(projectId)
removeProject(projectId) ==
  /\ call.op = "profile"
  /\ call' = Spread(call, [projects |-> SelectSeq(call.projects, LAMBDA p : p # projectId)])
  /\ UNCHANGED indexerVars

\* updateStats(stats): the given fields are spread over stats
updateStats(stats) ==
  /\ call.op = "profile"
  /\ call' = Spread(call, [stats |-> Spread(Spread(call.stats, stats),
                                            [lastUpdated |-> "later"])])
  /\ UNCHANGED indexerVars

\* recordFeedback(score)
recordFeedback(score) ==
  /\ call.op = "profile"
  /\ Len(call.stats.feedbackScores) < MaxFeedback
  /\ LET newScores == Append(call.stats.feedbackScores, score)
         average == Lowest(Fraction(Sum(newScores), Len(newScores)))
     IN  call' = Spread(call, [stats |-> Spread(call.stats,
                   [feedbackScores |-> newScores, averageFeedback |-> average,
                    lastUpdated |-> "later"])])
  /\ UNCHANGED indexerVars

\* reset(): set(defaultUserProfile)
reset ==
  /\ call.op = "profile"
  /\ call' = Spread(call, defaultUserProfile)
  /\ UNCHANGED indexerVars

(***************************************************************************)
(* The chat route on its own. call holds one request: the events the API   *)
(* stream of the model will give, failAt the event in whose place it       *)
(* throws (0 for never), pos the events consumed, frames what was enqueued *)
(* on the controller of the response stream, state the state of that       *)
(* stream ("none" when the response is not a stream).                      *)
(***************************************************************************)
\* what streamMessage yields for one event of the API stream
yieldsOf(event) ==
  IF event.type = "content_block_delta"
  THEN IF event.delta.type = "text_delta"
       THEN <<[type |-> "text", content |-> event.delta.text]>>
       ELSE <<>>
  ELSE IF event.type = "message_delta"
       THEN IF event.delta.stop_reason # "null"
            THEN <<[type |-> "done", stopReason |-> event.delta.stop_reason]>>
            ELSE <<>>
       ELSE <<>>

\* the chunks streamMessage yields over a run of events
RECURSIVE streamMessage(_)
streamMessage(events) ==
  IF events = <<>> THEN <<>>
  ELSE yieldsOf(Head(events)) \o streamMessage(Tail(events))

\* JSON.stringify(chunk), token by token
stringify(chunk) ==
  IF chunk.type = "text"
  THEN <<"{", "type", ":", "text", ",", "content", ":", chunk.content, "}">>
  ELSE <<"{", "type", ":", "done", ",", "stopReason", ":", chunk.stopReason, "}">>

\* `data: ${JSON.stringify(chunk)}\n\n`
dataFrame(chunk) == <<"data: ">> \o stringify(chunk) \o <<"\n\n">>

\* 'data: [DONE]\n\n'
doneFrame == <<"data: ", "[DONE]", "\n\n">>

\* a model stream that fails also ends the response with the done signal
StreamFailsWithDone ==
  /\ call.op = "chat"
  /\ call.pc = "loop"
  /\ call.failAt = call.pos + 1
  /\ call' = [call EXCEPT
       !.frames = IF call.state = "readable" THEN Append(@, doneFrame) ELSE @,
       !.state = IF @ = "readable" THEN "errored" ELSE @,
       !.pc = "ended"]
  /\ UNCHANGED indexerVars

\* POST of the chat route up to the response: without a key handleError, without stream the
\* answer of generateMessage, else a stream whose start runs below
ChatPOST(apiKey, stream, events, failAt) ==
  /\ call.op = "none"
  /\ failAt <= Len(events) + 1
  /\ call' = [op |-> "chat", events |-> events, failAt |-> failAt, pos |-> 0,
              frames |-> <<>>, cancelled |-> FALSE,
              response |-> IF ~apiKey THEN "handleError"
                           ELSE IF stream THEN "stream"
                           ELSE IF failAt # 0 THEN "handleError" ELSE "json",
              state |-> IF apiKey /\ stream THEN "readable" ELSE "none",
              pc |-> IF apiKey /\ stream THEN "loop" ELSE "ended"]
  /\ UNCHANGED indexerVars

\* one turn of the for await in streamMessage: an event that yields nothing is
\* passed over, a chunk is enqueued as a data frame; enqueue throws on a stream
\* that is no longer readable and the catch calls controller.error, which does
\* nothing there
StreamEvent ==
  /\ call.op = "chat"
  /\ call.pc = "loop"
  /\ call.pos < Len(call.events)
  /\ call.failAt # call.pos + 1
  /\ LET chunks == yieldsOf(call.events[call.pos + 1])
     IN  call' = IF chunks = <<>> THEN [call EXCEPT !.pos = @ + 1]
                 ELSE IF call.state = "readable"
                      THEN [call EXCEPT !.pos = @ + 1,
                                        !.frames = Append(@, dataFrame(chunks[1]))]
                      ELSE [call EXCEPT !.pos = @ + 1, !.pc = "ended"]
  /\ UNCHANGED indexerVars

\* the model stream throws: streamMessage rethrows and the catch of start calls
\* controller.error
StreamFails ==
  /\ call.op = "chat"
  /\ call.pc = "loop"
  /\ call.failAt = call.pos + 1
  /\ call' = [call EXCEPT !.state = IF @ = "readable" THEN "errored" ELSE @,
                          !.pc = "ended"]
  /\ UNCHANGED indexerVars

\* the model stream is done: the done signal is enqueued and the stream closed
StreamEnds ==
  /\ call.op = "chat"
  /\ call.pc = "loop"
  /\ call.pos = Len(call.events)
  /\ call.failAt # call.pos + 1
  /\ call' = IF call.state = "readable"
             THEN [call EXCEPT !.frames = Append(@, doneFrame), !.state = "closed",
                               !.pc = "ended"]
             ELSE [call EXCEPT !.pc = "ended"]
  /\ UNCHANGED indexerVars

\* the reader of the response cancels it
CancelResponse ==
  /\ call.op = "chat"
  /\ call.state = "readable"
  /\ call' = [call EXCEPT !.state = "closed", !.cancelled = TRUE]
  /\ UNCHANGED indexerVars

(***************************************************************************)
(* UnityMCPClient on its own. call holds the client: conns are the         *)
(* HubConnections built so far with their states (Connecting, Connected,   *)
(* Reconnecting, Disconnecting, Disconnected), connection is the index of  *)
(* this.connection (0 for null), command the outcome of the last           *)
(* executeCommand: "none", "rejected", or the state of the connection      *)
(* invoke was called on.                                                   *)
(***************************************************************************)
\* new UnityMCPClient()
NewClient ==
  /\ call.op = "none"
  /\ call' = [op |-> "mcp", conns |-> <<>>, connection |-> 0,
              connectionStatus |-> "disconnected", command |-> "none"]
  /\ UNCHANGED indexerVars

\* connect up to its await of connection.start(): a connection is built, assigned
\* to this.connection, given its handlers and started
connect ==
  /\ call.op = "mcp"
  /\ Len(call.conns) < MaxConnections
  /\ call' = [call EXCEPT
       !.conns = Append(@, [state |-> "Connecting", starting |-> TRUE, stopping |-> FALSE]),
       !.connection = Len(call.conns) + 1]
  /\ UNCHANGED indexerVars

\* start() of connection i settles and connect goes on after its await
StartSettles(i, ok) ==
  /\ call.op = "mcp"
  /\ call.conns[i].state = "Connecting"
  /\ call' = [call EXCEPT
       !.conns[i] = [state |-> IF ok THEN "Connected" ELSE "Disconnected",
                     starting |-> FALSE, stopping |-> FALSE],
       !.connectionStatus = IF ok THEN "connected" ELSE "error"]
  /\ UNCHANGED indexerVars

\* disconnect up to its await of connection.stop(); on a connection that is not
\* running stop() returns at once
disconnect ==
  /\ call.op = "mcp"
  /\ call.connection # 0
  /\ LET i == call.connection
     IN  call' = IF call.conns[i].state = "Disconnected"
                 THEN [call EXCEPT !.connectionStatus = "disconnected"]
                 ELSE [call EXCEPT !.conns[i].state = "Disconnecting",
                                   !.conns[i].stopping = TRUE]
  /\ UNCHANGED indexerVars

\* stop() of connection i settles: onclose is called and disconnect goes on after
\* its await; when the connection was stopped while it started, start() rejects
\* and the catch of connect runs as well, before or after (errorLast)
StopSettles(i, errorLast) ==
  /\ call.op = "mcp"
  /\ call.conns[i].state = "Disconnecting"
  /\ errorLast => call.conns[i].starting
  /\ call' = [call EXCEPT
       !.conns[i] = [state |-> "Disconnected", starting |-> FALSE, stopping |-> FALSE],
       !.connectionStatus = IF errorLast THEN "error" ELSE "disconnected"]
  /\ UNCHANGED indexerVars

\* connection i loses its transport: the handler of onreconnecting
onreconnecting(i) ==
  /\ call.op = "mcp"
  /\ call.conns[i].state = "Connected"
  /\ call' = [call EXCEPT !.conns[i].state = "Reconnecting",
                          !.connectionStatus = "disconnected"]
  /\ UNCHANGED indexerVars

\* connection i is back: the handler of onreconnected
onreconnected(i) ==
  /\ call.op = "mcp"
  /\ call.conns[i].state = "Reconnecting"
  /\ call' = [call EXCEPT !.conns[i].state = "Connected", !.connectionStatus = "connected"]
  /\ UNCHANGED indexerVars

\* connection i gives up reconnecting: the handler of onclose
onclose(i) ==
  /\ call.op = "mcp"
  /\ call.conns[i].state = "Reconnecting"
  /\ call' = [call EXCEPT !.conns[i].state = "Disconnected",
                          !.connectionStatus = "disconnected"]
  /\ UNCHANGED indexerVars

\* executeCommand: the guard, and the call of invoke on this.connection
executeCommand ==
  /\ call.op = "mcp"
  /\ call' = [call EXCEPT !.command =
       IF call.connection = 0 \/ call.connectionStatus # "connected" THEN "rejected"
       ELSE call.conns[call.connection].state]
  /\ UNCHANGED indexerVars

(***************************************************************************)
(* PineconeVectorDB.storeBatch on its own: the embedding requests and the  *)
(* upserts of one call, request by request.                                *)
(***************************************************************************)
\* the documents storeBatch is called with
Documents(n) == [k \in 1..n |-> [id |-> k, content |-> k]]

\* the vector made of a document and its embedding
VectorOf(doc) == [id |-> doc.id, values |-> <<"embedding", doc.content>>]

\* the loop of storeBatch at i: the next slice is handed to index.upsert, or the
\* call returns
UpsertLoop(c, i) ==
  IF i < Len(c.vectors)
  THEN [c EXCEPT !.pc = "upsert", !.i = i,
                 !.upserts = Append(@, BatchAt(c.vectors, i)),
                 !.unsettledAtUpsert = Append(@, c.requested - c.settled)]
  ELSE [c EXCEPT !.pc = "resolved", !.i = i]

\* a call of storeBatch up to its await of Promise.all: documents.map calls the
\* async function of every document, and each calls generateEmbedding before its
\* first await
StoreBatch(documents) ==
  /\ call.op = "none"
  /\ LET c == [op |-> "storeBatch", documents |-> documents, pc |-> "embed",
               requested |-> Len(documents), settled |-> 0, vectors |-> <<>>, i |-> 0,
               upserts |-> <<>>, upsertsSettled |-> 0, unsettledAtUpsert |-> <<>>,
               cause |-> "none"]
     IN  call' = IF documents = <<>> THEN UpsertLoop(c, 0) ELSE c
  /\ UNCHANGED indexerVars

\* a storeBatch that waits for every request and stores the vectors it got
EmbeddingSettlesTolerant(ok) ==
  /\ call.op = "storeBatch"
  /\ call.settled < call.requested
  /\ LET c == [call EXCEPT !.settled = @ + 1, !.cause = IF ok THEN @ ELSE "embed"]
     IN  call' = IF c.pc # "embed" \/ c.settled < c.requested THEN c
                 ELSE UpsertLoop([c EXCEPT !.vectors = [k \in 1..Len(c.documents) |->
                                                          VectorOf(c.documents[k])]], 0)
  /\ UNCHANGED indexerVars

\* one embedding request settles. Promise.all rejects with the first failure and
\* resolves, with the vectors in the order of the documents, when the last request
\* has succeeded; the loop then hands its first slice to index.upsert
EmbeddingSettles(ok) ==
  /\ call.op = "storeBatch"
  /\ call.settled < call.requested
  /\ LET c == [call EXCEPT !.settled = @ + 1]
     IN  call' = IF c.pc # "embed" THEN c
                 ELSE IF ~ok THEN [c EXCEPT !.pc = "rejected", !.cause = "embed"]
                 ELSE IF c.settled < c.requested THEN c
                 ELSE UpsertLoop([c EXCEPT !.vectors = [k \in 1..Len(c.documents) |->
                                                          VectorOf(c.documents[k])]], 0)
  /\ UNCHANGED indexerVars

\* the index.upsert in flight settles: the loop goes on, or the error is thrown
UpsertSettles(ok) ==
  /\ call.op = "storeBatch"
  /\ call.pc = "upsert"
  /\ LET c == [call EXCEPT !.upsertsSettled = @ + 1]
     IN  call' = IF ok THEN UpsertLoop(c, c.i + batchSize)
                 ELSE [c EXCEPT !.pc = "rejected", !.cause = "upsert"]
  /\ UNCHANGED indexerVars

(***************************************************************************)
(* Specification.                                                          *)
(***************************************************************************)
\* the ids a caller may pass to stopWatching: those returned so far and one more
WatcherIds == {watcherId(t) : t \in 0..now + 1}

\* the milliseconds between two readings of the clock; the first reading is 0
Elapsed == IF subs = <<>> THEN {0} ELSE {0, 1}

\* the files whose changes the watch sessions are exercised with
WatchedPaths == {ScriptA, EditorCs, VersionFile}

(***************************************************************************)
(* The indexing API (POST /api/unity/index). call keeps the last request:  *)
(* its body, the sessions on record when it arrived, and the response, or  *)
(* the call of the indexer whose result the handler awaits.                *)
(***************************************************************************)
\* a field that the body leaves out (a path or an id, and the action)
NoField == <<>>
NoAction == ""

Body(projectPath, action, id) == [projectPath |-> projectPath, action |-> action, watcherId |-> id]

\* the response made by handleError
ErrorResponse(message) == [kind |-> "error", message |-> message, n |-> 0]
\* NextResponse.json({ success: true, ... })
SuccessResponse(message) == [kind |-> "success", message |-> message, n |-> 0]
\* the handler awaits the n-th indexProject call, or the n-th stopWatching call
Awaiting(kind, n) == [kind |-> kind, message |-> "", n |-> n]

Request(body, response) ==
  [op |-> "POST", body |-> body, watchers |-> watchers, response |-> response]

\* const { projectPath, action = 'index' } = body
actionOf(body) == IF body.action = NoAction THEN "index" ELSE body.action

\* a handler that asks for the project path only where it is used
projectPathMissingLenient(body) ==
  body.projectPath = NoField /\ actionOf(body) # "stop-watch"

\* if (!projectPath)
projectPathMissing(body) == body.projectPath = NoField

POST(body, elapsed) ==
  IF projectPathMissing(body)
  THEN /\ call' = Request(body, ErrorResponse("Project path is required"))
       /\ UNCHANGED indexerVars
  ELSE IF actionOf(body) = "index"
  THEN /\ indexProject(body.projectPath)
       /\ call' = Request(body, Awaiting("indexProject", Len(runs) + 1))
  ELSE IF actionOf(body) = "watch"
  THEN /\ watchProject(body.projectPath, TRUE, elapsed)
       /\ call' = Request(body, SuccessResponse("Started watching project"))
  ELSE IF actionOf(body) = "stop-watch"
  THEN IF body.watcherId = NoField
       THEN /\ call' = Request(body, ErrorResponse("Watch ID is required"))
            /\ UNCHANGED indexerVars
       ELSE /\ stopWatching(body.watcherId)
            /\ call' = Request(body, Awaiting("stopWatching", Len(stopLog) + 1))
  ELSE /\ call' = Request(body, ErrorResponse("Unknown action"))
       /\ UNCHANGED indexerVars

\* the response a request has got so far ("pending" while the handler awaits)
responseOf(request) ==
  LET r == request.response
  IN  IF r.kind = "indexProject"
      THEN IF Len(runs) < r.n THEN Awaiting("pending", r.n)
           ELSE IF runs[r.n].status = "resolved"
                THEN SuccessResponse("Project indexed successfully")
                ELSE ErrorResponse(runs[r.n].cause)
      ELSE IF r.kind = "stopWatching"
      THEN IF stopLog[r.n].done THEN SuccessResponse("Stopped watching project")
           ELSE Awaiting("pending", r.n)
      ELSE r

\* the bodies the API is called with
Bodies ==
  {Body(projectPath, action, id) :
     projectPath \in {NoField, ProjectRoot},
     action \in {NoAction, "index", "watch", "stop-watch", "restart"},
     id \in {NoField} \cup WatcherIds}

IndexNext ==
  \/ IndexProject(ProjectRoot)
  \/ \E ok \in BOOLEAN : IndexEmbed(ok)
  \/ \E ok \in BOOLEAN : IndexUpsert(ok)
  \/ IndexScenes
  \/ IndexPrefabs
  \/ \E filePath \in Paths : \E value \in ValuesOf(filePath) : FsChange(filePath, value)

WatchNext ==
  \/ \E hasOnChange \in BOOLEAN, elapsed \in Elapsed : WatchProject(ProjectRoot, hasOnChange, elapsed)
  \/ \E id \in WatcherIds : StopWatching(id)
  \/ \E n \in 1..Len(stopLog) : StopComplete(n)
  \/ \E filePath \in WatchedPaths : \E value \in ValuesOf(filePath) : FsChange(filePath, value)
  \/ \E k \in 1..Len(tasks) : TaskRead(k)
  \/ \E k \in 1..Len(tasks) : \E ok, throws \in BOOLEAN : TaskEmbed(k, ok, throws)
  \/ \E k \in 1..Len(tasks) : \E ok, throws \in BOOLEAN : TaskUpsert(k, ok, throws)

\* one accessor call is followed to its end, under the allow-list built before it
AccessNext ==
  \/ \E dirPath \in AllowRoots : addAllowedPath(dirPath)
  \/ /\ call.op = "none"
     /\ \E op \in AccessOps, filePath \in AccessPaths : AccessorCall(op, filePath, TextOne)

\* direct calls of the source accessor under every allow-list
SpecAccess == Init /\ [][AccessNext]_vars

\* one call of the engine or of the vector store client
RagNext ==
  \/ /\ call.op = "none"
     /\ \E query \in Queries : AnalyzeQueryIntent(query)
  \/ /\ call.op = "none"
     /\ \E topK \in TopKOptions, minScore \in MinScoreOptions,
           response \in Responses(defaultTopK), fault \in SearchFaults :
          Search(ScenarioC, topK, minScore, response, fault)
  \/ /\ call.op = "none"
     /\ \E query \in EnhanceQueries, projectContext \in {NoProject, ProjectContext},
           userProfile \in {NoProfile, UserProfile(<<>>)}, response \in Responses(defaultTopK),
           fault \in SearchFaults :
          Enhance(query, projectContext, userProfile, response, fault)
  \/ /\ call.op = "none"
     /\ \E errorMessage \in ErrorMessages,
           userProfile \in {NoProfile} \cup {UserProfile(h) : h \in ErrorHistories},
           response \in {r \in Responses(errorTopK) : Len(r) <= 1}, fault \in SearchFaults :
          FindErrorSolution(errorMessage, userProfile, response, fault)

  \/ /\ call.op = "none"
     /\ \E codeSnippet \in Snippets, projectContext \in {NoProject, ProjectContext},
           response \in {r \in Responses(similarTopK) : Len(r) <= 1}, fault \in SearchFaults :
          FindSimilarCode(codeSnippet, projectContext, response, fault)
  \/ /\ call.op = "none"
     /\ \E apiName \in ApiNames, response \in {r \in Responses(apiTopK) : Len(r) <= 1},
           fault \in SearchFaults :
          GetUnityAPIDocumentation(apiName, response, fault)

\* calls of the RAG engine
SpecRag == Init /\ [][RagNext]_vars

ChunkNext ==
  /\ call.op = "none"
  /\ \E content \in ChunkInputs, maxChunkSize \in ChunkSizes : ChunkScript(content, maxChunkSize)

\* calls of the chunker
SpecChunk == Init /\ [][ChunkNext]_vars

StyleNext ==
  \/ /\ call.op = "none"
     /\ \E patterns \in PatternLists, fileCount \in 0..MaxFiles :
          CalculateConfidence(patterns, fileCount)
  \/ /\ call.op = "none"
     /\ \E scripts \in Corpora : AnalyzeProject(ProjectRoot, scripts)
  \/ \E code \in Codes : ApplyStyle(code)

\* calls of the style analyzer
SpecStyle == Init /\ [][StyleNext]_vars

RouteNext ==
  \/ \E body \in Bodies, elapsed \in Elapsed : POST(body, elapsed)
  \/ \E ok \in BOOLEAN : IndexEmbed(ok)
  \/ \E ok \in BOOLEAN : IndexUpsert(ok)
  \/ IndexScenes
  \/ IndexPrefabs
  \/ \E n \in 1..Len(stopLog) : StopComplete(n)

\* requests to the indexing API
SpecRoute == Init /\ [][RouteNext]_vars

StoreNext ==
  \/ /\ call.op = "none"
     /\ \E n \in 0..MaxDocs : StoreBatch(Documents(n))
  \/ \E ok \in BOOLEAN : EmbeddingSettles(ok)
  \/ \E ok \in BOOLEAN : UpsertSettles(ok)

\* calls of storeBatch
SpecStore == Init /\ [][StoreNext]_vars

\* the files whose changes the project descriptor is exercised with
DescriptorPaths == {VersionFile, ScriptA}

DescriptorNext ==
  \/ IndexProject(ProjectRoot)
  \/ \E ok \in BOOLEAN : IndexEmbed(ok)
  \/ \E ok \in BOOLEAN : IndexUpsert(ok)
  \/ IndexScenes
  \/ IndexPrefabs
  \/ \E elapsed \in Elapsed : WatchProject(ProjectRoot, TRUE, elapsed)
  \/ \E filePath \in DescriptorPaths : \E value \in ValuesOf(filePath) : FsChange(filePath, value)
  \/ \E k \in 1..Len(tasks) : TaskRead(k)
  \/ \E k \in 1..Len(tasks) : \E ok, throws \in BOOLEAN : TaskEmbed(k, ok, throws)
  \/ \E k \in 1..Len(tasks) : \E ok, throws \in BOOLEAN : TaskUpsert(k, ok, throws)

\* indexing runs and re-indexes while the project descriptor changes
SpecDescriptor == Init /\ [][DescriptorNext]_vars

\* the answers of the index that the callers of the store are exercised with
OwnResponses == {<<>>, <<MatchAt(1, Given(86))>>}

\* one call of the engine in any state of the index
OwnCalls ==
  \E response \in OwnResponses, fault \in SearchFaults :
    \/ Enhance(ScenarioC, ProjectContext, NoProfile, response, fault)
    \/ \E codeSnippet \in Snippets : FindSimilarCode(codeSnippet, ProjectContext, response, fault)
    \/ \E apiName \in ApiNames : GetUnityAPIDocumentation(apiName, response, fault)
    \/ FindErrorSolution(errorQueryPrefix, NoProfile, response, fault)

\* an indexing run, a watch session and changes of one script, without failures,
\* and the calls of the engine and of the analyzer
OwnNext ==
  \/ IndexProject(ProjectRoot)
  \/ IndexEmbed(TRUE)
  \/ IndexUpsert(TRUE)
  \/ IndexScenes
  \/ IndexPrefabs
  \/ WatchProject(ProjectRoot, TRUE, 0)
  \/ FsChange(ScriptA, File(TextTwo))
  \/ \E k \in 1..Len(tasks) : TaskRead(k)
  \/ \E k \in 1..Len(tasks) : TaskEmbed(k, TRUE, FALSE)
  \/ \E k \in 1..Len(tasks) : TaskUpsert(k, TRUE, FALSE)
  \/ OwnCalls
  \/ /\ call.op = "none"
     /\ AnalyzeProject(ProjectRoot, <<SampleScripts[1], SampleScripts[3]>>)
  \/ \E code \in Codes : ApplyStyle(code)

\* indexing, re-indexing and the calls that read the index
SpecOwnership == Init /\ [][OwnNext]_vars

\* the scores recordFeedback is called with
FeedbackScores == {1, 2, 5}
\* the ids of the projects
ProjectIds == {"p1", "p2"}
\* the values update is called with: a name, and a whole stats object
ProfileValues ==
  {[name |-> "Ann"],
   [stats |-> [totalConversations |-> 9, feedbackScores |-> <<5>>,
               averageFeedback |-> Fraction(1, 1), lastUpdated |-> "later"]]}
\* the fields updateStats is called with
StatsValues ==
  {[totalConversations |-> 1],
   [feedbackScores |-> <<5>>],
   [feedbackScores |-> <<>>],
   [averageFeedback |-> Fraction(3, 1)],
   [feedbackScores |-> <<1, 2>>, averageFeedback |-> Fraction(3, 2)]}

ProfileNext ==
  \/ CreateStore
  \/ \E values \in ProfileValues : update(values)
  \/ \E project \in ProjectIds : addProject(project)
  \/ \E projectId \in ProjectIds : removeProject(projectId)
  \/ \E stats \in StatsValues : updateStats(stats)
  \/ \E score \in FeedbackScores : recordFeedback(score)
  \/ reset

\* one user profile store
SpecProfile == Init /\ [][ProfileNext]_vars

\* the events of the API stream of the model
ApiEvents ==
  {[type |-> "content_block_delta", delta |-> [type |-> "text_delta", text |-> "a"]],
   [type |-> "content_block_delta", delta |-> [type |-> "text_delta", text |-> "b"]],
   [type |-> "content_block_delta", delta |-> [type |-> "input_json_delta"]],
   [type |-> "message_delta", delta |-> [stop_reason |-> "end_turn"]],
   [type |-> "message_delta", delta |-> [stop_reason |-> "null"]],
   [type |-> "message_start"]}
\* the runs of events of one request
EventRuns == UNION {[1..n -> ApiEvents] : n \in 0..MaxEvents}

ChatNext ==
  \/ \E apiKey \in BOOLEAN, stream \in BOOLEAN, events \in EventRuns,
        failAt \in 0..(MaxEvents + 1) : ChatPOST(apiKey, stream, events, failAt)
  \/ StreamEvent
  \/ StreamFails
  \/ StreamEnds
  \/ CancelResponse

\* one chat request
SpecChat == Init /\ [][ChatNext]_vars

\* the connections the client has built
Conns == IF call.op = "mcp" THEN 1..Len(call.conns) ELSE {}

McpNext ==
  \/ NewClient
  \/ connect
  \/ \E i \in Conns, ok \in BOOLEAN : StartSettles(i, ok)
  \/ disconnect
  \/ \E i \in Conns, errorLast \in BOOLEAN : StopSettles(i, errorLast)
  \/ \E i \in Conns : onreconnecting(i)
  \/ \E i \in Conns : onreconnected(i)
  \/ \E i \in Conns : onclose(i)
  \/ executeCommand

\* one client of the editor
SpecMcp == Init /\ [][McpNext]_vars

Next ==
  \/ IndexNext \/ WatchNext \/ AccessNext \/ RagNext \/ ChunkNext \/ StyleNext \/ RouteNext
  \/ DescriptorNext \/ StoreNext \/ OwnNext \/ McpNext \/ ProfileNext \/ ChatNext

\* the whole program
Spec == Init /\ [][Next]_vars
\* full indexing runs over a changing tree
SpecIndex == Init /\ [][IndexNext]_vars
\* watch sessions and the incremental re-index
SpecWatch == Init /\ [][WatchNext]_vars

(***************************************************************************)
(* Properties of indexProject (checked under SpecIndex).                   *)
(***************************************************************************)
RunIds == 1..Len(runs)

\* C1: a script that cannot be read does not abort indexProject: unless the
\* embedding provider or the vector store failed, the call resolves, with errors
\* the number of scripts that could not be read and indexed the other files.
C1_PerFileFailureTolerated ==
  \A k \in RunIds :
    runs[k].cause \notin {"embed", "upsert"} =>
      /\ runs[k].status = "resolved"
      /\ runs[k].result[1].errors = runs[k].unreadable
      /\ runs[k].result[1].indexed = runs[k].result[1].totalFiles - runs[k].unreadable

\* C2: a failed upsert (or embedding) rejects the whole indexProject call, which
\* then returns no counters, and every document the call had upserted before,
\* whatever its category, is still in the store as it was written.
C2_StoreFailureRejectsWithoutRollback ==
  /\ \A k \in RunIds :
       /\ runs[k].cause \in {"embed", "upsert"} =>
            runs[k].status = "rejected" /\ runs[k].result = <<>>
       /\ runs[k].flushed \subseteq store
  /\ ip.flushed \subseteq store

C2_Witness ==
  \E k \in RunIds :
    /\ runs[k].status = "rejected"
    /\ runs[k].cause = "upsert"
    /\ \E d \in runs[k].flushed : d.fileType = "script"
    /\ \E d \in runs[k].flushed : d.fileType = "scene"
    /\ runs[k].flushed \subseteq store

\* C3: two consecutive indexProject calls that both resolve, with the tree
\* unchanged from the start of the first to the end of the second, upsert the same
\* number of documents under ids that do not collide; the documents of the first
\* call stay in the store, and the number of records grows by that number (it
\* doubles when the first call started on an empty store).
C3_SecondRunDuplicates ==
  \A j \in RunIds : \A k \in RunIds :
    (/\ k = j + 1
     /\ runs[j].status = "resolved"
     /\ runs[k].status = "resolved"
     /\ runs[j].v0 = runs[k].v1) =>
      /\ Cardinality(runs[k].flushed) = Cardinality(runs[j].flushed)
      /\ Ids(runs[k].flushed) \cap Ids(runs[j].flushed) = {}
      /\ runs[j].flushed \cup runs[k].flushed \subseteq store
      /\ runs[k].count = runs[j].count + Cardinality(runs[j].flushed)
      /\ j = 1 => runs[k].count = 2 * runs[j].count

C3_Witness ==
  /\ Len(runs) >= 2
  /\ runs[1].status = "resolved"
  /\ runs[2].status = "resolved"
  /\ runs[1].v0 = runs[2].v1
  /\ runs[1].count > 0
  /\ Cardinality(store) = 2 * runs[1].count

(***************************************************************************)
(* Properties of the watch sessions and the incremental re-index (checked  *)
(* under SpecWatch).                                                       *)
(***************************************************************************)
TaskIds == 1..Len(tasks)
\* the documents a callback has upserted so far
Stored(t) == Range(SubSeq(t.docs, 1, t.i))
\* the callbacks dispatched by the step
NewTasks == {k \in 1..Len(tasks') : k > Len(tasks)}

\* C4: the incremental re-index only appends: no step removes or alters a stored
\* document, every document a callback has upserted is in the store, and the
\* callbacks of one file (one per version) hold documents under disjoint ids.
C4_ReindexAppendOnly ==
  /\ [](\A k \in TaskIds : Stored(tasks[k]) \subseteq store)
  /\ [](\A j \in TaskIds : \A k \in TaskIds :
          j # k => Ids(Range(tasks[j].docs)) \cap Ids(Range(tasks[k].docs)) = {})
  /\ [][\A d \in store : d \in store']_vars

C4_Witness ==
  \E j \in TaskIds : \E k \in TaskIds :
    /\ j < k
    /\ tasks[j].path = tasks[k].path
    /\ tasks[j].outcome = "ok" /\ tasks[k].outcome = "ok"
    /\ tasks[j].docs # <<>> /\ tasks[k].docs # <<>>
    /\ tasks[j].docs[1].content # tasks[k].docs[1].content
    /\ Range(tasks[j].docs) \cup Range(tasks[k].docs) \subseteq store
    /\ Cardinality(store) = Len(tasks[j].docs) + Len(tasks[k].docs)

\* C5: the callback of an unlink event, whatever the path, returns at once: it
\* reads no file, requests no embedding, calls the vector store and onChange not
\* at all, and the step that delivers the event leaves the store as it was.
C5_UnlinkDoesNothing ==
  /\ [](\A k \in TaskIds :
          tasks[k].event = "unlink" =>
            /\ tasks[k].pc = "done"
            /\ tasks[k].outcome = "unlinkLogged"
            /\ tasks[k].docs = <<>>
            /\ tasks[k].reads = 0 /\ tasks[k].embeds = 0
            /\ tasks[k].upserts = 0 /\ tasks[k].notified = 0)
  /\ [][(\E k \in NewTasks : tasks'[k].event = "unlink") => store' = store]_vars

C5_Witness ==
  /\ \E k \in TaskIds : tasks[k].event = "unlink" /\ EndsWith(tasks[k].path, extCs)
  /\ \E k \in TaskIds : tasks[k].event = "unlink" /\ ~EndsWith(tasks[k].path, extCs)

\* C6: callbacks are not serialized, and whatever the order of their steps, two
\* callbacks build documents under disjoint ids, so that once both have finished
\* the store holds the documents of both.
C6_OverlappingReindexesBothStored ==
  \A j \in TaskIds : \A k \in TaskIds :
    j # k =>
      /\ Ids(Range(tasks[j].docs)) \cap Ids(Range(tasks[k].docs)) = {}
      /\ (tasks[j].outcome = "ok" /\ tasks[k].outcome = "ok") =>
           /\ Range(tasks[j].docs) \cup Range(tasks[k].docs) \subseteq store
           /\ Cardinality({d \in store : d.id \in Ids(Range(tasks[j].docs) \cup Range(tasks[k].docs))})
                = Len(tasks[j].docs) + Len(tasks[k].docs)

\* two callbacks for the same file in flight at once, the later one overtaking
C6_Witness ==
  \E j \in TaskIds : \E k \in TaskIds :
    /\ j < k
    /\ tasks[j].path = tasks[k].path
    /\ tasks[j].pc = "upsert" /\ tasks[j].i = 0
    /\ tasks[k].outcome = "ok" /\ tasks[k].docs # <<>>
    /\ Range(tasks[k].docs) \subseteq store

\* C7: once the stopWatching call that closed a watcher has returned, that
\* watcher dispatches no callback.
C7_NoDispatchAfterStop ==
  [][\A k \in NewTasks : ~Stopped(tasks'[k].sub)]_vars

\* a callback dispatched before the stop made its upsert and called onChange after
\* the stop had returned
C7_Witness ==
  \E k \in TaskIds :
    /\ tasks[k].late
    /\ tasks[k].outcome = "ok"
    /\ tasks[k].upserts > 0
    /\ tasks[k].notified = 1
    /\ Range(tasks[k].docs) \subseteq store

\* C8: an error thrown while a file is re-indexed ends in the callback's catch:
\* the callback is done, nothing is thrown out of it, and the step leaves the
\* watchers and their records as they were.
C8_ReindexFailureCaught ==
  /\ [](\A k \in TaskIds :
          tasks[k].cause # "none" => tasks[k].pc = "done" /\ tasks[k].outcome = "caught")
  /\ [][(\E k \in TaskIds : tasks[k].cause = "none" /\ tasks'[k].cause # "none") =>
          UNCHANGED <<subs, watchers, fileChangeCallbacks>>]_vars

\* after a failed re-index, a later event of the same watcher is re-indexed
C8_Witness ==
  \E j \in TaskIds : \E k \in TaskIds :
    /\ j < k
    /\ tasks[j].sub = tasks[k].sub
    /\ tasks[j].outcome = "caught"
    /\ tasks[k].outcome = "ok"
    /\ ~subs[tasks[j].sub].closed

SubIds == 1..Len(subs)
\* a stopWatching call on the id is awaiting close()
Stopping(id) == \E n \in 1..Len(stopLog) : stopLog[n].id = id /\ ~stopLog[n].done

\* C9: distinct watch requests get distinct ids, every id on record stands for
\* exactly one open watcher (unless a stop of it is under way), and every open
\* watcher is on record under some id, so that it can be closed.
C9_OneSubscriptionPerSession ==
  /\ \A i \in SubIds : \A j \in SubIds : i # j => subs[i].id # subs[j].id
  /\ \A id \in DOMAIN watchers :
       ~Stopping(id) => Cardinality({i \in SubIds : subs[i].id = id /\ ~subs[i].closed}) = 1
  /\ \A i \in SubIds : ~subs[i].closed => \E id \in DOMAIN watchers : watchers[id] = i

\* C10: stopWatching on an id on record closes that id's watcher and nothing else
\* and, once close() has resolved, deletes the records of that id and no other;
\* on an id that is not on record (never returned, or stopped before) it changes
\* nothing at all. A watcher whose stop has returned stays closed.
C10_StopWatchingIdempotent ==
  /\ [][\A n \in 1..Len(stopLog') :
          n > Len(stopLog) =>
            IF stopLog'[n].found
            THEN /\ stopLog'[n].id \in DOMAIN watchers
                 /\ stopLog'[n].sub = watchers[stopLog'[n].id]
                 /\ subs'[stopLog'[n].sub].closed
                 /\ \A i \in SubIds : i # stopLog'[n].sub => subs'[i] = subs[i]
                 /\ UNCHANGED <<watchers, fileChangeCallbacks, store, tasks>>
            ELSE /\ stopLog'[n].id \notin DOMAIN watchers
                 /\ UNCHANGED <<subs, watchers, fileChangeCallbacks, store, tasks, fs,
                                allowedPaths>>]_vars
  /\ [][\A n \in 1..Len(stopLog) :
          (~stopLog[n].done /\ stopLog'[n].done) =>
            /\ stopLog[n].id \notin DOMAIN watchers'
            /\ stopLog[n].id \notin DOMAIN fileChangeCallbacks'
            /\ \A id \in DOMAIN watchers :
                 id # stopLog[n].id => id \in DOMAIN watchers' /\ watchers'[id] = watchers[id]
            /\ \A id \in DOMAIN fileChangeCallbacks :
                 id # stopLog[n].id =>
                   id \in DOMAIN fileChangeCallbacks'
                   /\ fileChangeCallbacks'[id] = fileChangeCallbacks[id]
            /\ UNCHANGED <<subs, store, tasks>>]_vars
  /\ [](\A n \in 1..Len(stopLog) : stopLog[n].found => subs[stopLog[n].sub].closed)

\* an id is stopped, and stopped again after the first call has returned: the
\* second call finds nothing, while another session stays open and on record
C10_Witness ==
  \E m \in 1..Len(stopLog) : \E n \in 1..Len(stopLog) :
    /\ m < n
    /\ stopLog[m].id = stopLog[n].id
    /\ stopLog[m].found /\ stopLog[m].done
    /\ ~stopLog[n].found
    /\ stopLog[n].id \notin DOMAIN watchers

\* a stop returns while a session under another id stays open and on record
C10_OtherSessionKept ==
  \E n \in 1..Len(stopLog) : \E id \in DOMAIN watchers :
    /\ stopLog[n].found /\ stopLog[n].done
    /\ id # stopLog[n].id
    /\ ~subs[watchers[id]].closed

(***************************************************************************)
(* Properties of the source accessor (checked under SpecAccess).           *)
(***************************************************************************)
\* the path is an allow-listed root or lies beneath one
WithinAllowList(allowed, filePath) ==
  \E root \in allowed : filePath = root \/ StartsWith(filePath, root \o sep)

\* C11: an accessor call on a path that is neither an allow-listed root nor
\* beneath one is rejected with AccessDenied and makes no file-system call.
C11_OutsideAllowListDenied ==
  (call.op \in AccessOps /\ ~WithinAllowList(call.allowed, call.path)) =>
    call.outcome = "AccessDenied" /\ call.fsCalls = {}

(***************************************************************************)
(* Counters of indexProject (checked under SpecIndex).                     *)
(***************************************************************************)
\* C12: in the result of an indexProject call, indexed is the number of files
\* of which the call stored at least one document.
C12_IndexedCountsStoredFiles ==
  \A k \in RunIds :
    runs[k].status = "resolved" =>
      runs[k].result[1].indexed = Cardinality({d.filePath : d \in runs[k].flushed})

(***************************************************************************)
(* Properties of the RAG engine (checked under SpecRag).                   *)
(***************************************************************************)
\* C13: under the default threshold a match is returned exactly when its score
\* is at least 0.70, and a returned match is banded high above 0.85, medium above
\* 0.75 up to 0.85, and low up to 0.75.
C13_ThresholdAndBands ==
  (call.op = "search" /\ ~call.options.minScore.has /\ call.outcome = "resolved") =>
    LET returned == {call.results[n].document.id : n \in 1..Len(call.results)}
    IN  /\ \A n \in 1..Len(call.response) :
             LET m == call.response[n]
             IN  m.score.has =>
                   /\ m.score.val < 70 => m.id \notin returned
                   /\ m.score.val >= 70 => m.id \in returned
        /\ \A n \in 1..Len(call.results) :
             LET r == call.results[n]
             IN  /\ r.score >= 70
                 /\ r.score > 85 => r.relevance = "high"
                 /\ (75 < r.score /\ r.score <= 85) => r.relevance = "medium"
                 /\ r.score <= 75 => r.relevance = "low"
                 /\ \E k \in 1..Len(call.response) :
                      call.response[k].id = r.document.id /\ call.response[k].score.val = r.score

\* matches exactly on the thresholds, and one below the minimum
C13_Witness ==
  /\ call.op = "search" /\ ~call.options.minScore.has /\ call.outcome = "resolved"
  /\ \E n \in 1..Len(call.response) : call.response[n].score = Given(69)
  /\ \E n \in 1..Len(call.results) :
       call.results[n].score = 85 /\ call.results[n].relevance = "medium"
  /\ \E n \in 1..Len(call.results) :
       call.results[n].score = 70 /\ call.results[n].relevance = "low"

IntentTypes == <<"code-generation", "explanation", "debugging", "optimization">>
\* the keyword list of the n-th bucket
BucketWords(n) ==
  CASE n = 1 -> codeGenerationWords
    [] n = 2 -> explanationWords
    [] n = 3 -> debuggingWords
    [] n = 4 -> optimizationWords

\* C14: the classification returns, for every query, the first bucket in the
\* order code-generation, explanation, debugging, optimization that has a keyword
\* occurring in the lower-cased query, and general when none has; the query
\* "Create a new enemy AI script" is code-generation.
C14_IntentFirstMatchingBucket ==
  call.op = "analyzeQueryIntent" =>
    LET lowered == toLowerCase(call.query)
        hits == {n \in 1..Len(IntentTypes) : \E w \in BucketWords(n) : includes(lowered, w)}
    IN  /\ call.intent.type \in Range(IntentTypes) \cup {"general"}
        /\ hits = {} => call.intent.type = "general"
        /\ hits # {} => call.intent.type = IntentTypes[CHOOSE n \in hits : \A m \in hits : n <= m]
        /\ call.query = ScenarioC => call.intent.type = "code-generation"

\* a query with keywords of several buckets, and the scenario's query
C14_Witness ==
  /\ call.op = "analyzeQueryIntent"
  /\ call.intent.type = "explanation"
  /\ includes(toLowerCase(call.query), <<"f","i","x">>)
  /\ includes(call.query, <<"w","h","y">>)

\* positions of the fragments of the given kinds in a prompt
PositionsOf(prompt, kinds) == {n \in 1..Len(prompt) : prompt[n].kind \in kinds}
\* every fragment of the first kinds comes before every fragment of the second
Precede(prompt, first, second) ==
  \A m \in PositionsOf(prompt, first) : \A n \in PositionsOf(prompt, second) : m < n

\* C15: in every prompt built by enhance the profile summary comes before the
\* project summary, that before the retrieved documents, those before the query,
\* and every instruction fragment (Unity practices, hardware, code style) comes
\* after the query.
C15_FixedSectionOrder ==
  (call.op = "enhance" /\ call.outcome = "resolved") =>
    LET prompt == call.result[1].enhancedPrompt
    IN  /\ Precede(prompt, {"userProfile"}, {"projectContext", "relevantCode", "document", "userQuery"})
        /\ Precede(prompt, {"projectContext"}, {"relevantCode", "document", "userQuery"})
        /\ Precede(prompt, {"relevantCode", "document"}, {"userQuery"})
        /\ Precede(prompt, {"userQuery"}, {"unityPractices", "hardware", "codeStyle"})

\* the documents of a prompt, in the order in which they appear
DocumentsOf(prompt) == SelectSeq(prompt, LAMBDA f : f.kind = "document")

OccursIn(text, message) ==
  \E a \in 1..Len(message) + 1 : \E b \in a - 1..Len(message) :
    SubSeq(toLowerCase(message), a, b) = toLowerCase(text)

\* C17: with a profile whose history has an entry whose error text occurs in
\* the message, findErrorSolution returns exactly one result, carrying the first
\* such entry's solution with score 1.0 and band high, and calls neither the
\* embedding provider nor the vector store; otherwise it embeds the message and
\* searches.
C17_HistoryBeforeSearch ==
  call.op = "findErrorSolution" =>
    LET history == call.userProfile.errorHistory
        hits == {n \in 1..Len(history) : OccursIn(history[n].error, call.errorMessage)}
    IN  IF call.userProfile.has /\ hits # {}
        THEN /\ call.outcome = "resolved"
             /\ Len(call.results) = 1
             /\ call.results[1].document.content =
                  history[CHOOSE n \in hits : \A m \in hits : n <= m].solution
             /\ call.results[1].score = 100
             /\ call.results[1].relevance = "high"
             /\ call.embedded = <<>> /\ call.queries = 0
        ELSE /\ Len(call.embedded) = 1
             /\ call.outcome = "resolved" => call.queries = 1

\* two entries occur in the message and the first one's solution is returned
C17_Witness ==
  /\ call.op = "findErrorSolution"
  /\ call.userProfile.has
  /\ Len(call.userProfile.errorHistory) >= 2
  /\ LET history == call.userProfile.errorHistory
     IN  /\ ~OccursIn(history[1].error, call.errorMessage)
         /\ \E m \in 2..Len(history) : \E n \in 2..Len(history) :
              /\ m < n
              /\ OccursIn(history[m].error, call.errorMessage)
              /\ OccursIn(history[n].error, call.errorMessage)
              /\ history[m].solution # history[n].solution
              /\ call.results[1].document.content = history[m].solution
  /\ call.queries = 0

\* no entry occurs and the vector search answers
C17_FallbackReached ==
  /\ call.op = "findErrorSolution"
  /\ call.userProfile.has /\ call.userProfile.errorHistory # <<>>
  /\ call.queries = 1 /\ call.results # <<>>

(***************************************************************************)
(* Properties of the chunker (checked under SpecChunk).                    *)
(***************************************************************************)
\* a class or method declaration starts at position q of s
BoundaryAt(s, q) == ClassAt(s, q) \/ MethodAt(s, q)

\* chunk is, white space at its ends aside, a whole piece of content: it occurs
\* in content, starts at a boundary or at the start of the text, ends at a
\* boundary or at the end of the text, and has no boundary inside
WholePiece(content, chunk) ==
  /\ \A q \in 2..Len(chunk) : ~BoundaryAt(chunk, q)
  /\ \E a \in 1..Len(content) :
       LET b == a + Len(chunk) - 1
       IN  /\ b <= Len(content)
           /\ SubSeq(content, a, b) = chunk
           /\ BoundaryAt(content, a) \/ \A q \in 1..a - 1 : IsWs(content[q])
           /\ LET e == SkipWs(content, b + 1)
              IN  e > Len(content) \/ BoundaryAt(content, e)

\* C18: every chunk is non-empty, has no white space at its ends, and is at
\* most maxChunkSize long unless it is one whole piece without a boundary inside.
C18_ChunksBounded ==
  call.op = "chunkScript" =>
    \A n \in 1..Len(call.chunks) :
      LET chunk == call.chunks[n]
      IN  /\ Len(chunk) > 0
          /\ ~IsWs(chunk[1]) /\ ~IsWs(chunk[Len(chunk)])
          /\ Len(chunk) <= call.maxChunkSize \/ WholePiece(call.content, chunk)

\* one call gives a chunk packed from two pieces and a piece longer than the
\* maximum, emitted whole
C18_Witness ==
  /\ call.op = "chunkScript"
  /\ \E n \in 1..Len(call.chunks) :
       /\ Len(call.chunks[n]) <= call.maxChunkSize
       /\ \E q \in 2..Len(call.chunks[n]) : BoundaryAt(call.chunks[n], q)
  /\ \E n \in 1..Len(call.chunks) : Len(call.chunks[n]) > call.maxChunkSize

\* the chunks from the k-th on lie in content from position p on, one after the
\* other in their order, with nothing but white space before, between and after
RECURSIVE Reassembles(_, _, _, _)
Reassembles(content, p, chunks, k) ==
  LET a == SkipWs(content, p)
  IN  IF k > Len(chunks) THEN a > Len(content)
      ELSE /\ HasAt(content, a, chunks[k])
           /\ Reassembles(content, a + Len(chunks[k]), chunks, k + 1)

\* C27: the chunks of a text, put one after the other in their order, give the
\* text again but for white space at the ends of the chunks: nothing else is lost,
\* nothing is repeated, nothing changes place; and the documents made of a script
\* carry the chunks under the ordinals 0, 1, ... in that order.
C27_ChunksReassemble ==
  call.op = "chunkScript" =>
    /\ Reassembles(call.content, 1, call.chunks, 1)
    /\ LET docs == ChunkDocs(0, ScriptA, call.content, NoInfo)
       IN  /\ Reassembles(call.content, 1, [n \in 1..Len(docs) |-> docs[n].content], 1)
           /\ \A n \in 1..Len(docs) : docs[n].id[4] = n - 1

\* a section packed into two chunks, with the white space between them dropped
C27_Witness ==
  /\ call.op = "chunkScript"
  /\ Len(call.chunks) = 2
  /\ call.chunks[1] # call.chunks[2]
  /\ MethodAt(call.chunks[2], 1)
  /\ Len(call.chunks[1]) + Len(call.chunks[2]) < Len(call.content)

(***************************************************************************)
(* Properties of the style analyzer (checked under SpecStyle).             *)
(***************************************************************************)
\* C19: the overall confidence is 0 without patterns and otherwise the mean of
\* the patterns' confidences times min(fileCount / 10, 1); it lies in [0, 1], does
\* not decrease when the same patterns come from more files, and is the same for
\* every file count from 10 on.
C19_ConfidenceScaledByFileCount ==
  call.op = "calculateConfidence" =>
    LET ps == call.patterns
        files == call.fileCount
        capped == IF files < 10 THEN files ELSE 10
    IN  /\ ps = <<>> => call.result.num = 0
        /\ ps # <<>> =>
             call.result.num * (totalConfidence(ps).den * Len(ps) * 10) =
               totalConfidence(ps).num * capped * call.result.den
        /\ FractionLeq(Fraction(0, 1), call.result) /\ FractionLeq(call.result, Fraction(1, 1))
        /\ \A more \in files..MaxFiles :
             /\ FractionLeq(call.result, calculateConfidence(ps, more))
             /\ files >= 10 => FractionEq(call.result, calculateConfidence(ps, more))

\* the same patterns seen in 3 files and in 20
C19_Witness ==
  /\ call.op = "calculateConfidence"
  /\ call.fileCount = 3
  /\ Len(call.patterns) >= 2
  /\ ~FractionEq(call.patterns[1].confidence, call.patterns[2].confidence)
  /\ ~FractionLeq(calculateConfidence(call.patterns, 20), call.result)
  /\ FractionEq(calculateConfidence(call.patterns, 20), calculateConfidence(call.patterns, 10))

(***************************************************************************)
(* Properties of the indexing API (checked under SpecRoute).               *)
(***************************************************************************)
\* C20: a POST whose body is { watcherId, action: "stop-watch" }, without a
\* projectPath, with watcherId naming a session on record, closes that session's
\* watcher and is answered with success (at once, or when the stop has returned).
C20_StopWatchWithoutProjectPath ==
  (/\ call.op = "POST"
   /\ call.body.action = "stop-watch"
   /\ call.body.projectPath = NoField
   /\ call.body.watcherId \in DOMAIN call.watchers) =>
    /\ subs[call.watchers[call.body.watcherId]].closed
    /\ responseOf(call).kind \in {"success", "pending"}
    /\ call.response.kind = "stopWatching"

\* the same request with the project path is served
C20_StopWithProjectPathReached ==
  /\ call.op = "POST"
  /\ call.body.action = "stop-watch"
  /\ call.body.projectPath = ProjectRoot
  /\ call.body.watcherId \in DOMAIN call.watchers
  /\ subs[call.watchers[call.body.watcherId]].closed
  /\ responseOf(call).kind = "success"

(***************************************************************************)
(* indexProject and the watch sessions (checked under SpecIndex).          *)
(***************************************************************************)
\* an indexProject call on the root has resolved
Indexed == \E k \in RunIds : runs[k].status = "resolved"
\* a script below Assets/Scripts of the root
IsScript(filePath) ==
  StartsWith(filePath, scriptsPathOf(ProjectRoot) \o sep) /\ EndsWith(filePath, extCs)

\* C21: once an indexProject call on a root has resolved, an open watcher is on
\* that root, and a script below it that is then added or rewritten is dispatched
\* to the re-index callback, with no watchProject call made.
C21_IndexedRootWatched ==
  /\ [](Indexed => \E i \in 1..Len(subs) : subs[i].root = ProjectRoot /\ ~subs[i].closed)
  /\ [][(/\ Indexed
         /\ \E f \in Paths : IsScript(f) /\ fs'[f] # fs[f] /\ fs'[f] # Missing)
        => \E k \in NewTasks : IsScript(tasks'[k].path) /\ tasks'[k].pc = "read"]_vars

(***************************************************************************)
(* The project descriptor (checked under SpecDescriptor).                  *)
(***************************************************************************)
\* ProjectSettings/ProjectVersion.txt of the root cannot be read
DescriptorFails == fs[VersionFile].kind # "file"
\* the documents carry the name made from the path and the version "unknown"
UnknownVersion(docs) ==
  \A n \in 1..Len(docs) :
    docs[n].projectName = <<"p">> /\ docs[n].unityVersion = <<"u","n","k","n","o","w","n">>

\* C22: when the project descriptor is missing or unreadable, an indexProject
\* call whose scripts can be read goes on to store documents that carry the name
\* made from the path and the version "unknown", a re-index of a readable script
\* does likewise, and neither ever fails for a read unless a script is unreadable.
C22_DescriptorFailureTolerated ==
  /\ [][(ip.pc = "idle" /\ DescriptorFails /\ (ip'.pc # "idle" \/ Len(runs') > Len(runs))) =>
          IF \A f \in {ScriptA, ScriptB} : fs[f].kind # "unreadable"
          THEN /\ Len(runs') = Len(runs)
               /\ ip'.pc \in {"embed", "scenes"}
               /\ ip'.info.name = <<"p">>
               /\ ip'.info.version = <<"u","n","k","n","o","w","n">>
               /\ UnknownVersion(ip'.docs)
          ELSE runs'[Len(runs')].cause = "read"]_vars
  /\ [][\A k \in TaskIds :
          (tasks[k].pc = "read" /\ tasks'[k].pc # "read" /\ DescriptorFails) =>
            IF fs[tasks[k].path].kind = "file"
            THEN /\ tasks'[k].pc = "embed"
                 /\ tasks'[k].cause = "none"
                 /\ UnknownVersion(tasks'[k].docs)
            ELSE tasks'[k].cause = "read"]_vars

\* with the descriptor missing throughout, an indexProject call has resolved and
\* stored documents under the version "unknown"
C22_Witness ==
  /\ DescriptorFails
  /\ \E k \in RunIds :
       /\ runs[k].status = "resolved"
       /\ runs[k].v0 = edits
       /\ runs[k].flushed # {}
       /\ \A d \in runs[k].flushed : d.unityVersion = textUnknown /\ d.projectName = <<"p">>
       /\ runs[k].flushed \subseteq store

\* with the descriptor unreadable, a changed script has been re-indexed
C22_ReindexReached ==
  /\ fs[VersionFile] = Unreadable
  /\ \E k \in TaskIds :
       /\ tasks[k].outcome = "ok"
       /\ tasks[k].docs # <<>>
       /\ UnknownVersion(tasks[k].docs)
       /\ Range(tasks[k].docs) \subseteq store

(***************************************************************************)
(* Properties of storeBatch (checked under SpecStore).                     *)
(***************************************************************************)
\* the embedding requests of the call that have not settled
InFlight == call.requested - call.settled

\* C25: within one storeBatch call the embedding requests in flight never
\* exceed a fixed bound, whatever the number of documents: with more documents
\* than the size of an upsert batch, the only fixed limit of the code, at most
\* that many requests are in flight at any moment.
C25_EmbeddingBoundedParallelism ==
  call.op = "storeBatch" => InFlight <= batchSize

\* C26: the upserts of a storeBatch call carry, one slice after the other, the
\* vectors of the documents in their order, each document once: every upsert has
\* between 1 and 100 records, is issued when every embedding request has settled
\* and the upsert before it has returned, and a call that returns has made
\* ceil(n / 100) upserts, which together carry all n documents.
C26_SequentialBatchedUpserts ==
  call.op = "storeBatch" =>
    LET n == Len(call.documents)
        ups == call.upserts
    IN  /\ \A j \in 1..Len(ups) :
             /\ Len(ups[j]) >= 1 /\ Len(ups[j]) <= 100
             /\ \A k \in 1..Len(ups[j]) :
                  /\ 100 * (j - 1) + k <= n
                  /\ ups[j][k].id = call.documents[100 * (j - 1) + k].id
                  /\ ups[j][k].values = <<"embedding", call.documents[100 * (j - 1) + k].content>>
             /\ j < Len(ups) => Len(ups[j]) = 100
             /\ call.unsettledAtUpsert[j] = 0
        /\ Len(ups) - call.upsertsSettled \in {0, 1}
        /\ Len(ups) - call.upsertsSettled = 1 <=> call.pc = "upsert"
        /\ call.pc = "resolved" =>
             /\ Len(ups) = (n + 99) \div 100
             /\ n > 0 => 100 * (Len(ups) - 1) + Len(ups[Len(ups)]) = n

\* 201 documents: two upserts of 100 records and one of 1
C26_Witness ==
  /\ call.op = "storeBatch"
  /\ call.pc = "resolved"
  /\ Len(call.documents) = 201
  /\ Len(call.upserts) = 3
  /\ Len(call.upserts[3]) = 1

(***************************************************************************)
(* Properties of the style analyzer's patterns                             *)
(***************************************************************************)
\* the type names found in the scripts of the call, in order
TypeNames == Flatten([k \in 1..Len(call.scripts) |-> ClassNamesFrom(call.scripts[k], 1)])

\* the patterns of the call's profile that carry a label
PatternsLabelled(label) ==
  {i \in 1..Len(call.profile.patterns) : call.profile.patterns[i].pattern = label}

C30_EightOfTenReached ==
  /\ call.op = "analyzeProject"
  /\ Len(TypeNames) = 10
  /\ Count(TypeNames, IsPascalCase) = 8
  /\ PatternsLabelled(labelPascalClasses) = {}

\* C28: analyzeProject returns the majority brace style with its proportion as
\* confidence: when the braces on the line after a closing parenthesis outnumber
\* those on the parenthesis's line the pattern is new-line braces with confidence
\* new-line count / all placements, and when those on the same line outnumber it
\* is same-line braces with the corresponding proportion.
C28_MajorityBraceStyle ==
  call.op = "analyzeProject" =>
    LET same == sameLineOnly(call.scripts)
        new == newLineCount(call.scripts)
    IN  /\ new > same =>
             /\ PatternsLabelled(labelSameLine) = {}
             /\ \E i \in PatternsLabelled(labelNewLine) :
                  FractionEq(call.profile.patterns[i].confidence, Fraction(new, same + new))
        /\ same > new =>
             /\ PatternsLabelled(labelNewLine) = {}
             /\ \E i \in PatternsLabelled(labelSameLine) :
                  FractionEq(call.profile.patterns[i].confidence, Fraction(same, same + new))

\* no project is given the new-line pattern
C28_NewLineNeverEmitted == call.op = "analyzeProject" => PatternsLabelled(labelNewLine) = {}

\* a project with braces on the following line only gets no brace pattern
C28_NewLineOnlyReached ==
  /\ call.op = "analyzeProject"
  /\ newLineCount(call.scripts) > 0
  /\ sameLineOnly(call.scripts) = 0
  /\ PatternsLabelled(labelNewLine) = {}
  /\ PatternsLabelled(labelSameLine) = {}

\* the bare lowercase private field declarations of a text
BareFields(text) == {q \in 1..Len(text) : PrivateFieldAt(text, q).end # 0}

\* C29: applyStyle rewrites by the patterns of a profile that analyzeProject
\* produced: with the underscore-prefix naming pattern in the profile every bare
\* lowercase private field declaration of the text gets the prefix, and with a
\* brace-placement pattern in it the braces of the text are placed in that style.
C29_RewritesKeyedByPatterns ==
  call.op = "applyStyle" =>
    /\ PatternsLabelled(labelUnderscore) # {} => BareFields(call.result) = {}
    /\ PatternsLabelled(labelSameLine) # {} =>
         \A p \in 1..Len(call.result) : NewLineAt(call.result, p) = 0
    /\ PatternsLabelled(labelNewLine) # {} =>
         \A p \in 1..Len(call.result) :
           SameLineAt(call.result, p) # 0 => NewLineAt(call.result, p) # 0

\* the profile holds the underscore-prefix pattern and the field is left bare
C29_FieldLeftBareReached ==
  /\ call.op = "applyStyle"
  /\ PatternsLabelled(labelUnderscore) # {}
  /\ BareFields(call.code) # {}
  /\ BareFields(call.result) = BareFields(call.code)

\* the profile holds the same-line pattern and a brace stays on the next line
C29_BraceLeftReached ==
  /\ call.op = "applyStyle"
  /\ PatternsLabelled(labelSameLine) # {}
  /\ \E p \in 1..Len(call.result) : NewLineAt(call.result, p) # 0

\* the indentation pattern of the profile is applied
C29_ReindentedReached ==
  /\ call.op = "applyStyle"
  /\ \E i \in 1..Len(call.profile.patterns) :
       includes(call.profile.patterns[i].pattern, keyIndentation)
  /\ call.result # call.code

\* C24: every pattern of a profile that analyzeProject returns has a confidence
\* between 0 and 1, one of the categories naming, formatting, architecture and
\* component, and at most 3 examples.
C24_PatternsWellFormed ==
  call.op = "analyzeProject" =>
    \A i \in 1..Len(call.profile.patterns) :
      LET pattern == call.profile.patterns[i]
      IN  /\ pattern.confidence.den > 0
          /\ pattern.confidence.num >= 0
          /\ pattern.confidence.num <= pattern.confidence.den
          /\ pattern.type \in {"naming", "formatting", "architecture", "component"}
          /\ Len(pattern.examples) <= 3

\* a profile with patterns of the four categories, among them a component used
\* more than twice per script
C24_Witness ==
  /\ call.op = "analyzeProject"
  /\ \A type \in {"naming", "formatting", "architecture", "component"} :
       \E i \in 1..Len(call.profile.patterns) : call.profile.patterns[i].type = type
  /\ \E i \in 1..Len(call.profile.patterns) :
       /\ call.profile.patterns[i].type = "component"
       /\ call.profile.patterns[i].frequency > 2 * Len(call.scripts)
       /\ call.profile.patterns[i].confidence = Fraction(1, 1)

\* a pattern met more than 3 times carries 3 examples
C24_ExamplesTruncatedReached ==
  /\ call.op = "analyzeProject"
  /\ \E i \in 1..Len(call.profile.patterns) :
       /\ call.profile.patterns[i].frequency > 3
       /\ Len(call.profile.patterns[i].examples) = 3

(***************************************************************************)
(* Ownership of the vector store                                           *)
(***************************************************************************)
EngineOps == {"enhance", "findSimilarCode", "getUnityAPIDocumentation", "findErrorSolution"}
AnalyzerOps == {"analyzeProject", "applyStyle"}

\* C23: the records of the vector store change only in an upsert of an indexing
\* run or of a re-indexing task of a watch session; a call of enhance,
\* findSimilarCode, getUnityAPIDocumentation or findErrorSolution leaves the
\* records as they are and invokes nothing on the index but query, and a call of
\* analyzeProject or applyStyle invokes nothing on the index.
C23_OnlyIndexersWrite ==
  [][/\ store' # store =>
          \/ ip.pc = "upsert" /\ ip' # ip
          \/ \E k \in 1..Len(tasks) : tasks[k].pc = "upsert" /\ tasks'[k] # tasks[k]
     /\ (call' # call /\ call'.op \in EngineOps) =>
          /\ store' = store
          /\ \A i \in 1..Len(call'.indexCalls) : call'.indexCalls[i] = "query"
     /\ (call' # call /\ call'.op \in AnalyzerOps) =>
          /\ store' = store
          /\ call'.indexCalls = <<>>]_vars

\* findSimilarCode has queried an index that holds records of two files
C23_Witness ==
  /\ call.op = "findSimilarCode"
  /\ call.indexCalls = <<"query">>
  /\ call.results # <<>>
  /\ \E d, f \in store : d.filePath # f.filePath

\* applyStyle has been called while the index holds records
C23_AnalyzerCalledReached ==
  /\ call.op = "applyStyle"
  /\ store # {}

\* a re-indexing task has written to the index
C23_MaintainerWroteReached ==
  /\ \E k \in 1..Len(tasks) : tasks[k].upserts > 0
  /\ store # {}

C32_EmbeddingFailureStoresNothing ==
  (call.op = "storeBatch" /\ call.cause = "embed") =>
    /\ call.pc = "rejected"
    /\ call.upserts = <<>>
    /\ call.upsertsSettled = 0
    /\ store = {}

\* a call with more than a hundred documents has rejected on an embedding, every
\* request has settled, and nothing was upserted
C32_Witness ==
  /\ call.op = "storeBatch"
  /\ call.cause = "embed"
  /\ call.requested > batchSize
  /\ call.settled = call.requested
  /\ call.upserts = <<>>

(***************************************************************************)
(* onChange of a watch session                                             *)
(***************************************************************************)
\* the callback of task t has failed in its re-index
ReindexFailed(t) == t.cause \in {"read", "embed", "upsert"}

\* C33: a watch session's onChange is called once for an add or change event on
\* a script whose re-index succeeded, when every upsert of the event has been
\* made and its documents are in the store; it is not called for an unlink event,
\* for a file that is not a script, or for an event whose re-index failed, and it
\* is not called a second time.
C33_OnChangeOncePerReindex ==
  /\ [](\A k \in 1..Len(tasks) :
          LET t == tasks[k]
          IN  /\ t.notified \in {0, 1}
              /\ t.notified = 1 =>
                   /\ t.event \in {"add", "change"}
                   /\ EndsWith(t.path, extCs)
                   /\ subs[t.sub].onChange
                   /\ ~ReindexFailed(t)
                   /\ t.pc = "done"
                   /\ t.i = Len(t.docs)
                   /\ t.upserts = (Len(t.docs) + batchSize - 1) \div batchSize
              /\ (t.pc = "done" /\ t.event # "unlink" /\ EndsWith(t.path, extCs)
                  /\ subs[t.sub].onChange /\ ~ReindexFailed(t)) => t.notified = 1)
  /\ [][\A k \in 1..Len(tasks) :
          /\ tasks'[k].notified >= tasks[k].notified
          /\ tasks'[k].notified > tasks[k].notified => Range(tasks'[k].docs) \subseteq store']_vars

\* onChange has been called for a change of a script whose documents were upserted
C33_Witness ==
  \E k \in 1..Len(tasks) :
    /\ tasks[k].notified = 1
    /\ tasks[k].event = "change"
    /\ tasks[k].upserts > 0
    /\ Range(tasks[k].docs) \subseteq store

\* events that end without a call of onChange: an unlink, a file that is not a
\* script, and a failed re-index
C33_SilentEventsReached ==
  /\ \E k \in 1..Len(tasks) :
       tasks[k].pc = "done" /\ tasks[k].notified = 0 /\ subs[tasks[k].sub].onChange
       /\ (tasks[k].event = "unlink" \/ ~EndsWith(tasks[k].path, extCs))
  /\ \E k \in 1..Len(tasks) :
       tasks[k].pc = "done" /\ tasks[k].notified = 0 /\ subs[tasks[k].sub].onChange
       /\ ReindexFailed(tasks[k])

(***************************************************************************)
(* The files the watch callback re-indexes                                 *)
(***************************************************************************)
\* C34: every file for which a watch event leads to an upsert is one that
\* indexProject on the same root indexes as a script: a .cs file below
\* Assets/Scripts of the root.
C34_ReindexedAreIndexedScripts ==
  \A k \in 1..Len(tasks) :
    tasks[k].upserts > 0 =>
      /\ EndsWith(tasks[k].path, extCs)
      /\ StartsWith(tasks[k].path, scriptsPathOf(subs[tasks[k].sub].root) \o sep)

\* the documents of a .cs file outside Assets/Scripts are in the store, and no
\* indexProject call put them there
C34_OutsideScriptStoredReached ==
  /\ \E d \in store : d.filePath = EditorCs
  /\ runs = <<>>

\* indexProject finds no script outside Assets/Scripts
C34_FullIndexLeavesItOut ==
  \A k \in 1..Len(runs) : \A d \in runs[k].flushed :
    d.fileType = "script" => StartsWith(d.filePath, scriptsPathOf(ProjectRoot) \o sep)

(***************************************************************************)
(* Options of search                                                       *)
(***************************************************************************)
\* C35: search queries the index with the limit the caller passes and returns
\* exactly the matches whose score is at least the threshold the caller passes,
\* a limit or a threshold of 0 included; 5 and 0.70 are used only when the
\* option is left out.
C35_ExplicitOptionsHonoured ==
  (call.op = "search" /\ call.outcome = "resolved") =>
    LET k == IF call.options.topK.has THEN call.options.topK.val ELSE 5
        m == IF call.options.minScore.has THEN call.options.minScore.val ELSE 70
        returned == {call.results[n].document.id : n \in 1..Len(call.results)}
    IN  /\ call.topK = k
        /\ returned = {call.response[n].id :
                         n \in {j \in 1..Len(call.response) :
                                  call.response[j].score.has
                                  /\ call.response[j].score.val >= m}}

\* the options that are given and not 0 are honoured
C35_NonZeroOptionsHonoured ==
  (call.op = "search" /\ call.outcome = "resolved") =>
    LET returned == {call.results[n].document.id : n \in 1..Len(call.results)}
    IN  /\ (call.options.topK.has /\ call.options.topK.val # 0) =>
             call.topK = call.options.topK.val
        /\ (call.options.minScore.has /\ call.options.minScore.val # 0) =>
             returned = {call.response[n].id :
                           n \in {j \in 1..Len(call.response) :
                                    call.response[j].score.has
                                    /\ call.response[j].score.val >= call.options.minScore.val}}

\* a threshold of 0 is passed and a match of score 0.69 is left out
C35_ZeroThresholdReached ==
  /\ call.op = "search" /\ call.outcome = "resolved"
  /\ call.options.minScore = Given(0)
  /\ \E n \in 1..Len(call.response) : call.response[n].score = Given(69)
  /\ call.results = <<>>

\* a limit of 0 is passed and the index is asked for 5 matches
C35_ZeroLimitReached ==
  /\ call.op = "search"
  /\ call.options.topK = Given(0)
  /\ call.topK = 5

(***************************************************************************)
(* Status of the client of the editor                                      *)
(***************************************************************************)
\* C36: after any interleaving of connect, disconnect and the events of the
\* connections, connectionStatus is 'connected' exactly when the connection built
\* last is started and not closed, so that executeCommand calls invoke only on a
\* started connection and rejects otherwise.
C36_StatusReflectsConnection ==
  call.op = "mcp" =>
    /\ call.connectionStatus = "connected" =>
         /\ call.connection # 0
         /\ call.conns[call.connection].state \in {"Connected", "Disconnecting"}
    /\ (call.connection # 0 /\ call.conns[call.connection].state = "Connected") =>
         call.connectionStatus = "connected"
    /\ call.command \in {"none", "rejected", "Connected", "Disconnecting"}

\* with one connection built the status follows it
C36_SingleConnectionHolds ==
  (call.op = "mcp" /\ Len(call.conns) <= 1) =>
    /\ call.connectionStatus = "connected" =>
         /\ call.connection # 0
         /\ call.conns[call.connection].state \in {"Connected", "Disconnecting"}
    /\ (call.connection # 0 /\ call.conns[call.connection].state = "Connected") =>
         call.connectionStatus = "connected"
    /\ call.command \in {"none", "rejected", "Connected", "Disconnecting"}

\* a command was invoked on a connection that has not started
C36_CommandOnUnstartedReached ==
  /\ call.op = "mcp"
  /\ call.command = "Connecting"

\* the connection built last is connected and the status says disconnected
C36_ConnectedShownDisconnectedReached ==
  /\ call.op = "mcp"
  /\ call.connection = 2
  /\ call.conns[2].state = "Connected"
  /\ call.connectionStatus = "disconnected"

\* the connection built last has failed to start, an older one has reconnected,
\* the status says connected and a command was invoked on the failed connection
C36_StaleReconnectReached ==
  /\ call.op = "mcp"
  /\ call.connection = 2
  /\ call.conns[2].state = "Disconnected"
  /\ call.conns[1].state = "Connected"
  /\ call.connectionStatus = "connected"
  /\ call.command = "Disconnected"

(***************************************************************************)
(* Feedback statistics of the user profile                                 *)
(***************************************************************************)
\* the arithmetic mean of scores, 0 for none
MeanOf(scores) ==
  IF scores = <<>> THEN Fraction(0, 1) ELSE Fraction(Sum(scores), Len(scores))

\* C37: in every state of the user profile store stats.averageFeedback is the
\* arithmetic mean of stats.feedbackScores (0 when there is none), and
\* recordFeedback appends its score after the scores already kept.
C37_AverageIsMeanOfScores ==
  /\ [](call.op = "profile" =>
          FractionEq(call.stats.averageFeedback, MeanOf(call.stats.feedbackScores)))
  /\ [][\A score \in FeedbackScores :
          recordFeedback(score) =>
            call'.stats.feedbackScores = Append(call.stats.feedbackScores, score)]_vars

\* updateStats has left an average that is not the mean of the scores
C37_AverageOffReached ==
  /\ call.op = "profile"
  /\ call.stats.feedbackScores = <<5>>
  /\ call.stats.averageFeedback = Fraction(0, 1)

\* without a feedback field given to updateStats the average is the mean
C37_MeanKeptByOtherActions ==
  [][(call.op = "profile" /\ call'.op = "profile"
      /\ FractionEq(call.stats.averageFeedback, MeanOf(call.stats.feedbackScores))
      /\ ~ \E stats \in StatsValues :
             /\ DOMAIN stats \cap {"feedbackScores", "averageFeedback"} # {}
             /\ updateStats(stats))
     => FractionEq(call'.stats.averageFeedback, MeanOf(call'.stats.feedbackScores))]_vars

\* recordFeedback has appended a score to scores it kept, and the average is
\* their mean
C37_RecordedReached ==
  /\ call.op = "profile"
  /\ call.stats.feedbackScores = <<1, 2, 5>>
  /\ call.stats.averageFeedback = Fraction(8, 3)

(***************************************************************************)
(* Frames of a streamed chat response                                      *)
(***************************************************************************)
\* the data frames of chunks, in their order
FramesOf(chunks) == [k \in 1..Len(chunks) |-> dataFrame(chunks[k])]

C38_FailureReached ==
  /\ call.op = "chat"
  /\ call.state = "errored"
  /\ Len(call.frames) = 1
  /\ call.failAt = 3

\* a response cancelled by its reader ends without the done frame
C38_CancelledReached ==
  /\ call.op = "chat"
  /\ call.cancelled
  /\ call.pc = "ended"
  /\ call.failAt = 0
  /\ \A k \in 1..Len(call.frames) : call.frames[k] # doneFrame

====
